---------------------------- MODULE Spec2Model ----------------------------
(***************************************************************************)
(* Model of github.com/ygrebnov/config: the environment override engine    *)
(* (applyEnv and its helpers, util.go) and the one-time initialisation of  *)
(* Provider.Get (config.go).                                               *)
(*                                                                         *)
(* Go strings are sequences of one-character strings, so that names are    *)
(* built, compared and parsed character by character as the code does.     *)
(* Memory is a heap: a sequence of cells, a pointer is the index of its    *)
(* cell and 0 is nil.  A reflect.Value that can be set is a location: a    *)
(* cell and a path of field indices inside it.                             *)
(***************************************************************************)
EXTENDS Integers, Sequences, FiniteSets, TLC

VARIABLES
    environ,    \* the process environment: a set of <<name, value>> pairs
    heap,       \* the cells allocated so far
    root,       \* the pointer handed to loadFromEnv, Provider.cfg in Get (0 is nil)
    rootType,   \* the name of the static type T of the value root points to
    prefix,     \* Provider.envPrefix
    before,     \* the heap as it was when applyEnv last started
    calls,      \* how many times loadFromEnv has run on root
    naming,     \* a call of buildEnvName or toScreamingSnake: its inputs and result
    looked,     \* the names the last loadFromEnv looked up, in the order of its lookups
    m,          \* the other fields of the Provider
    once,       \* Provider.initOnce: [done, m], m the goroutine holding its mutex or 0
    files,      \* the file system: what each path holds
    pc,         \* where each goroutine is in Get
    ret,        \* what each goroutine's last Get returned
    log,        \* the steps of the initialisation run so far, in order
    out,        \* the messages written to streams.Out()
    fcall,      \* a call of writeToFile or loadFromFile: its inputs and result
    ts,         \* a ThreadSafeBuffersStreams: its OutBuf and ErrBuf
    task        \* the goroutines using ts: each one's call and where it is in it

engineVars == <<environ, heap, root, rootType, prefix, before, calls, naming, looked>>

providerVars == <<m, once, files, pc, ret, log, out, fcall>>

streamVars == <<ts, task>>

vars == <<engineVars, providerVars, streamVars>>

-----------------------------------------------------------------------------
(* Characters and strings *)

LowerChars == <<"a","b","c","d","e","f","g","h","i","j","k","l","m",
                "n","o","p","q","r","s","t","u","v","w","x","y","z">>

UpperChars == <<"A","B","C","D","E","F","G","H","I","J","K","L","M",
                "N","O","P","Q","R","S","T","U","V","W","X","Y","Z">>

DigitChars == <<"0","1","2","3","4","5","6","7","8","9">>

Range(s) == {s[i] : i \in 1..Len(s)}

IndexOf(c, s) == CHOOSE i \in 1..Len(s) : s[i] = c

IsLower(c) == c \in Range(LowerChars)

IsUpper(c) == c \in Range(UpperChars)

IsDigit(c) == c \in Range(DigitChars)

DigitVal(c) == IndexOf(c, DigitChars) - 1

\* strings.HasPrefix(s, p)
HasPrefix(s, p) == Len(p) <= Len(s) /\ SubSeq(s, 1, Len(p)) = p

\* s[n:] for a 0-based n
DropN(s, n) == SubSeq(s, n + 1, Len(s))

\* strings.Join(segs, sep)
RECURSIVE Join(_, _)
Join(segs, sep) ==
    IF Len(segs) = 0 THEN <<>>
    ELSE IF Len(segs) = 1 THEN segs[1]
    ELSE segs[1] \o sep \o Join(Tail(segs), sep)

IsSpace(c) == c \in {" ", "\t", "\n", "\r"}

RECURSIVE TrimLeft(_)
TrimLeft(s) == IF Len(s) > 0 /\ IsSpace(s[1]) THEN TrimLeft(Tail(s)) ELSE s

RECURSIVE TrimRight(_)
TrimRight(s) ==
    IF Len(s) > 0 /\ IsSpace(s[Len(s)]) THEN TrimRight(SubSeq(s, 1, Len(s) - 1)) ELSE s

\* strings.TrimSpace(s)
TrimSpace(s) == TrimRight(TrimLeft(s))

-----------------------------------------------------------------------------
(* Decoders of the standard library, as the getters call them.  A result   *)
(* is [ok |-> BOOLEAN, val |-> value].                                     *)

Fail == [ok |-> FALSE, val |-> 0]

Found(v) == [ok |-> TRUE, val |-> v]

TrueTexts == { <<"1">>, <<"t">>, <<"T">>, <<"T","R","U","E">>,
               <<"t","r","u","e">>, <<"T","r","u","e">> }

FalseTexts == { <<"0">>, <<"f">>, <<"F">>, <<"F","A","L","S","E">>,
                <<"f","a","l","s","e">>, <<"F","a","l","s","e">> }

\* strconv.ParseBool(s)
ParseBool(s) ==
    IF s \in TrueTexts THEN Found(TRUE)
    ELSE IF s \in FalseTexts THEN Found(FALSE)
    ELSE [ok |-> FALSE, val |-> FALSE]

AllDigits(s) == \A i \in 1..Len(s) : IsDigit(s[i])

RECURSIVE StripZeros(_)
StripZeros(s) == IF Len(s) > 1 /\ s[1] = "0" THEN StripZeros(Tail(s)) ELSE s

\* a < b for two digit strings of the same length
RECURSIVE DigitsLess(_, _)
DigitsLess(a, b) ==
    IF Len(a) = 0 THEN FALSE
    ELSE IF a[1] # b[1] THEN DigitVal(a[1]) < DigitVal(b[1])
    ELSE DigitsLess(Tail(a), Tail(b))

\* 2^63, the magnitude limit of a signed 64-bit integer, as digits
Limit63 == <<"9","2","2","3","3","7","2","0","3","6","8","5","4","7","7","5","8","0","8">>

\* whether the magnitude written by the digits ds is below 2^63 (neg: at most 2^63)
FitsInt64(ds, neg) ==
    LET d == StripZeros(ds) IN
    \/ Len(d) < Len(Limit63)
    \/ Len(d) = Len(Limit63) /\ (DigitsLess(d, Limit63) \/ (neg /\ d = Limit63))

RECURSIVE DigitsValue(_, _)
DigitsValue(ds, acc) ==
    IF Len(ds) = 0 THEN acc ELSE DigitsValue(Tail(ds), acc * 10 + DigitVal(ds[1]))

\* strconv.ParseInt(s, 10, 64): an optional sign, then one or more decimal digits,
\* and a range error outside the signed 64-bit range
ParseInt(s) ==
    IF Len(s) = 0 THEN Fail
    ELSE LET neg == s[1] = "-"
             ds  == IF s[1] \in {"+", "-"} THEN Tail(s) ELSE s
         IN IF Len(ds) = 0 \/ ~AllDigits(ds) THEN Fail
            ELSE IF ~FitsInt64(ds, neg) THEN Fail
            ELSE Found(IF neg THEN 0 - DigitsValue(ds, 0) ELSE DigitsValue(ds, 0))

\* time.unitMap, in nanoseconds
UnitTexts == { <<"n","s">>, <<"u","s">>, <<"m","s">>, <<"s">>, <<"m">>, <<"h">> }

UnitOf(u) ==
    CASE u = <<"n","s">> -> 1
      [] u = <<"u","s">> -> 1000
      [] u = <<"m","s">> -> 1000000
      [] u = <<"s">>     -> 1000000000
      [] u = <<"m">>     -> 60 * 1000000000
      [] u = <<"h">>     -> 3600 * 1000000000

\* the length of the longest prefix of s made of digits
RECURSIVE LeadingDigits(_)
LeadingDigits(s) ==
    IF Len(s) > 0 /\ IsDigit(s[1]) THEN 1 + LeadingDigits(Tail(s)) ELSE 0

\* the length of the longest prefix of s holding neither a digit nor "."
RECURSIVE LeadingUnit(_)
LeadingUnit(s) ==
    IF Len(s) > 0 /\ ~IsDigit(s[1]) /\ s[1] # "." THEN 1 + LeadingUnit(Tail(s)) ELSE 0

RECURSIVE Pow10(_)
Pow10(n) == IF n = 0 THEN 1 ELSE 10 * Pow10(n - 1)

\* the part of a term after the point: f, written with nf digits, of one unit
\* (f * (unit / scale) in the code)
Fraction(f, nf, unit) ==
    IF unit % Pow10(nf) = 0 THEN f * (unit \div Pow10(nf)) ELSE (f * unit) \div Pow10(nf)

\* the loop of time.ParseDuration: [0-9]*(\.[0-9]*)?unit, repeated, summed into d
RECURSIVE DurationTerms(_, _)
DurationTerms(s, d) ==
    IF Len(s) = 0 THEN Found(d)
    ELSE IF ~(s[1] = "." \/ IsDigit(s[1])) THEN Fail
    ELSE LET np   == LeadingDigits(s)
             v    == DigitsValue(SubSeq(s, 1, np), 0)
             s1   == DropN(s, np)
             dot  == Len(s1) > 0 /\ s1[1] = "."
             s2   == IF dot THEN Tail(s1) ELSE s1
             nf   == IF dot THEN LeadingDigits(s2) ELSE 0
             f    == DigitsValue(SubSeq(s2, 1, nf), 0)
             s3   == DropN(s2, nf)
             nu   == LeadingUnit(s3)
             u    == SubSeq(s3, 1, nu)
         IN IF np = 0 /\ nf = 0 THEN Fail
            ELSE IF nu = 0 THEN Fail
            ELSE IF u \notin UnitTexts THEN Fail
            ELSE DurationTerms(DropN(s3, nu), d + v * UnitOf(u) + Fraction(f, nf, UnitOf(u)))

\* time.ParseDuration(s): an optional sign, then "0" or a sequence of terms
ParseDuration(s) ==
    LET neg  == Len(s) > 0 /\ s[1] = "-"
        body == IF Len(s) > 0 /\ s[1] \in {"+", "-"} THEN Tail(s) ELSE s
    IN IF body = <<"0">> THEN Found(0)
       ELSE IF Len(body) = 0 THEN Fail
       ELSE LET r == DurationTerms(body, 0)
            IN IF r.ok /\ neg THEN Found(0 - r.val) ELSE r

-----------------------------------------------------------------------------
(* The process environment *)

\* os.Environ(): one "NAME=value" string for each variable
Environ == {e[1] \o <<"=">> \o e[2] : e \in environ}

\* os.LookupEnv(name)
LookupEnv(name) ==
    IF \E e \in environ : e[1] = name
    THEN Found((CHOOSE e \in environ : e[1] = name)[2])
    ELSE [ok |-> FALSE, val |-> <<>>]

\* getString taking a variable set to "" as not found
getString_NonEmpty(name) ==
    LET r == LookupEnv(name) IN IF r.ok /\ r.val # <<>> THEN r ELSE [ok |-> FALSE, val |-> <<>>]

getString(name) == LookupEnv(name)

getInt(name) ==
    LET r == LookupEnv(name) IN IF ~r.ok THEN Fail ELSE ParseInt(TrimSpace(r.val))

getBool(name) ==
    LET r == LookupEnv(name)
    IN IF ~r.ok THEN [ok |-> FALSE, val |-> FALSE] ELSE ParseBool(TrimSpace(r.val))

getDuration(name) ==
    LET r == LookupEnv(name) IN IF ~r.ok THEN Fail ELSE ParseDuration(TrimSpace(r.val))

hasAnyEnvWithPrefix(p) == \E e \in Environ : HasPrefix(e, p)

-----------------------------------------------------------------------------
(* Names *)

\* buildEnvName without its two cases for an empty prefix
buildEnvName_AlwaysPrefix(pfx, segments) ==
    IF Len(segments) = 0 THEN pfx
    ELSE pfx \o <<"_">> \o Join(segments, <<"_">>)

buildEnvName(pfx, segments) ==
    IF pfx = <<>> /\ Len(segments) = 0 THEN <<>>
    ELSE IF pfx = <<>> THEN Join(segments, <<"_">>)
    ELSE IF Len(segments) = 0 THEN pfx
    ELSE pfx \o <<"_">> \o Join(segments, <<"_">>)

\* isBoundary that also splits between a letter and a digit
isBoundary_LetterDigit(prev, curr) ==
    \/ IsLower(prev) /\ IsUpper(curr)
    \/ (IsLower(prev) \/ IsUpper(prev)) /\ IsDigit(curr)
    \/ IsDigit(prev) /\ (IsLower(curr) \/ IsUpper(curr))

isBoundary(prev, curr) == IsLower(prev) /\ IsUpper(curr)

toUpper(r) == IF IsLower(r) THEN UpperChars[IndexOf(r, LowerChars)] ELSE r

RECURSIVE snakeFrom(_, _)
snakeFrom(s, i) ==
    IF i > Len(s) THEN <<>>
    ELSE (IF i > 1 /\ isBoundary(s[i - 1], s[i]) THEN <<"_">> ELSE <<>>)
         \o <<toUpper(s[i])>> \o snakeFrom(s, i + 1)

toScreamingSnake(s) == snakeFrom(s, 1)

-----------------------------------------------------------------------------
(* Types, values and reflection *)

StringT == [kind |-> "string"]

BoolT == [kind |-> "bool"]

IntT(bits) == [kind |-> "int", bits |-> bits, duration |-> FALSE]

\* time.Duration is an int64
DurationT == [kind |-> "int", bits |-> 64, duration |-> TRUE]

UintT(bits) == [kind |-> "uint", bits |-> bits]

\* a kind applyEnv has no case for
Float64T == [kind |-> "float64"]

StructT(fields) == [kind |-> "struct", fields |-> fields]

PtrT(elem) == [kind |-> "ptr", elem |-> elem]

\* a reflect.StructField: Name, PkgPath ("" when exported), the env tag, Type
StructField(name, pkgPath, tag, type) ==
    [Name |-> name, PkgPath |-> pkgPath, tag |-> tag, Type |-> type]

\* the zero value of a type: what var t T and reflect.New(T) hold
RECURSIVE Zero(_)
Zero(t) ==
    CASE t.kind = "string" -> <<>>
      [] t.kind = "bool"   -> FALSE
      [] t.kind = "struct" -> [i \in 1..Len(t.fields) |-> Zero(t.fields[i].Type)]
      [] OTHER             -> 0

RECURSIVE GetPath(_, _)
GetPath(val, path) ==
    IF Len(path) = 0 THEN val ELSE GetPath(val[Head(path)], Tail(path))

RECURSIVE SetPath(_, _, _)
SetPath(val, path, x) ==
    IF Len(path) = 0 THEN x
    ELSE [val EXCEPT ![Head(path)] = SetPath(val[Head(path)], Tail(path), x)]

\* a reflect.Value that has storage: the cell, the path inside it, its type,
\* and whether it is addressable
Value(cell, path, type, addressable) ==
    [cell |-> cell, path |-> path, type |-> type, addressable |-> addressable]

\* the value stored at v
Load(h, v) == GetPath(h[v.cell], v.path)

\* the heap after storing x at v
Store(h, v, x) == [h EXCEPT ![v.cell] = SetPath(@, v.path, x)]

\* v.Elem() of a non-nil pointer
Elem(h, v) == Value(Load(h, v), <<>>, v.type.elem, TRUE)

\* v.Field(i) of a struct
Field(v, i) == Value(v.cell, Append(v.path, i), v.type.fields[i].Type, v.addressable)

\* field.CanSet() of an exported field
CanSet(v) == v.addressable

RECURSIVE Pow2(_)
Pow2(n) == IF n = 0 THEN 1 ELSE 2 * Pow2(n - 1)

\* ToSigned with a value out of range set to the nearest bound
ToSigned_Saturating(x, bits) ==
    IF bits >= 64 THEN x
    ELSE IF x >= Pow2(bits - 1) THEN Pow2(bits - 1) - 1
    ELSE IF x < 0 - Pow2(bits - 1) THEN 0 - Pow2(bits - 1)
    ELSE x

\* the conversion to a signed integer of the given width (SetInt)
ToSigned(x, bits) ==
    IF bits >= 64 THEN x
    ELSE ((x + Pow2(bits - 1)) % Pow2(bits)) - Pow2(bits - 1)

\* the conversion of a non-negative int64 to an unsigned integer of the given
\* width (SetUint(uint64(n)))
ToUnsigned(x, bits) == IF bits >= 64 THEN x ELSE x % Pow2(bits)

\* field.SetString, SetBool, SetInt, SetUint
Set(h, v, x) ==
    CASE v.type.kind = "int"  -> Store(h, v, ToSigned(x, v.type.bits))
      [] v.type.kind = "uint" -> Store(h, v, ToUnsigned(x, v.type.bits))
      [] OTHER                -> Store(h, v, x)

\* Allocate without the test for nil: the pointer is set to a new cell each time
Allocate_Always(h, v) == Store(Append(h, Zero(v.type.elem)), v, Len(h) + 1)

\* field.Set(reflect.New(elem)) when the pointer is nil
Allocate(h, v) ==
    IF Load(h, v) = 0
    THEN Store(Append(h, Zero(v.type.elem)), v, Len(h) + 1)
    ELSE h

-----------------------------------------------------------------------------
(* The override engine *)

ScalarKinds == {"string", "bool", "int", "uint"}

\* decode without the n >= 0 test of the unsigned cases
decode_AnySign(t, envName) ==
    CASE t.kind = "string" -> getString(envName)
      [] t.kind = "bool"   -> getBool(envName)
      [] t.kind = "int"    -> IF t.duration THEN getDuration(envName) ELSE getInt(envName)
      [] t.kind = "uint"   -> getInt(envName)

\* the getter applyEnv uses for a scalar of type t and what it accepts from it:
\* getString, getBool, getDuration or getInt, and for an unsigned kind only n >= 0
decode(t, envName) ==
    CASE t.kind = "string" -> getString(envName)
      [] t.kind = "bool"   -> getBool(envName)
      [] t.kind = "int"    -> IF t.duration THEN getDuration(envName) ELSE getInt(envName)
      [] t.kind = "uint"   -> LET r == getInt(envName)
                              IN IF r.ok /\ r.val >= 0 THEN r ELSE Fail

\* the cases String, Bool, Int.. and Uint.. of a field that is no pointer
applyScalar(h, field, envName) ==
    LET r == decode(field.type, envName)
    IN IF r.ok /\ CanSet(field) THEN Set(h, field, r.val) ELSE h

\* applyPtrScalar allocating before it looks at the variable
applyPtrScalar_AllocFirst(h, field, envName) ==
    LET r  == decode(field.type.elem, envName)
        h1 == Allocate(h, field)
    IN IF r.ok /\ CanSet(field) THEN Set(h1, Elem(h1, field), r.val) ELSE h1

\* the cases String, Bool, Int.. and Uint.. of a pointer field: allocate when nil,
\* then set the pointee
applyPtrScalar(h, field, envName) ==
    LET r == decode(field.type.elem, envName)
    IN IF r.ok /\ CanSet(field)
       THEN LET h1 == Allocate(h, field) IN Set(h1, Elem(h1, field), r.val)
       ELSE h

\* whether the pointer-to-struct field named by pfx and segs is to be entered
probe(pfx, segs) == hasAnyEnvWithPrefix(buildEnvName(pfx, segs) \o <<"_">>)

\* ensureStruct replacing a struct that was allocated before
ensureStruct_Replace(h, field) ==
    IF CanSet(field) THEN Store(Append(h, Zero(field.type.elem)), field, Len(h) + 1) ELSE h

\* the allocation of a pointer-to-struct field that is entered
ensureStruct(h, field) ==
    IF Load(h, field) = 0 /\ CanSet(field) THEN Allocate(h, field) ELSE h

\* the segment of a struct field: its env tag, or the name in upper snake case
segmentOf(sf) == IF sf.tag = <<>> THEN toScreamingSnake(sf.Name) ELSE sf.tag

\* skipped without the test of the env tag
skipped_TagIgnored(sf) == sf.PkgPath # ""

\* whether the loop of applyEnv passes over the field
skipped(sf) == sf.PkgPath # "" \/ sf.tag = <<"-">>

RECURSIVE applyEnv(_, _, _, _)
RECURSIVE applyFields(_, _, _, _, _)
RECURSIVE applyField(_, _, _, _, _)

\* one iteration of the loop of applyEnv, for field i of the struct v
applyField(h, v, pfx, segments, i) ==
    LET sf == v.type.fields[i] IN
    IF skipped(sf) THEN h
    ELSE LET seg     == segmentOf(sf)
             field   == Field(v, i)
             segs    == Append(segments, seg)
             envName == buildEnvName(pfx, segs)
         IN CASE field.type.kind = "struct" -> applyEnv(h, field, pfx, segs)
              [] field.type.kind \in ScalarKinds -> applyScalar(h, field, envName)
              [] field.type.kind = "ptr" ->
                    ( CASE field.type.elem.kind = "struct" ->
                             IF probe(pfx, segs)
                             THEN applyEnv(ensureStruct(h, field), field, pfx, segs)
                             ELSE h
                        [] field.type.elem.kind \in ScalarKinds ->
                             applyPtrScalar(h, field, envName)
                        [] OTHER -> h )
              [] OTHER -> h

\* the loop of applyEnv from field i on
applyFields(h, v, pfx, segments, i) ==
    IF i > Len(v.type.fields) THEN h
    ELSE applyFields(applyField(h, v, pfx, segments, i), v, pfx, segments, i + 1)

RECURSIVE applyOrdered(_, _, _, _, _, _)

\* applyOrdered returning at the first field it wrote nothing to
applyOrdered_ReturnsEarly(h, v, pfx, segments, order, k) ==
    IF k > Len(order) THEN h
    ELSE LET h1 == applyField(h, v, pfx, segments, order[k])
         IN IF h1 = h THEN h ELSE applyOrdered(h1, v, pfx, segments, order, k + 1)

\* the loop of applyEnv with the fields of v taken in the given order, from the
\* k-th on; the code takes them by index
applyOrdered(h, v, pfx, segments, order, k) ==
    IF k > Len(order) THEN h
    ELSE applyOrdered(applyField(h, v, pfx, segments, order[k]), v, pfx, segments, order, k + 1)

\* applyEnv(v, prefix, segments): the heap it leaves
applyEnv(h, v, pfx, segments) ==
    IF v.type.kind = "ptr"
    THEN IF Load(h, v) = 0 THEN h
         ELSE IF v.type.elem.kind # "struct" THEN h
         ELSE applyFields(h, Elem(h, v), pfx, segments, 1)
    ELSE IF v.type.kind # "struct" THEN h
    ELSE applyFields(h, v, pfx, segments, 1)

\* loadFromEnv making a value of its own when cfg is nil
loadFromEnv_AllocNil(h, r, t, pfx) ==
    IF r = 0 THEN Append(h, Zero(t)) ELSE applyEnv(h, Value(r, <<>>, t, TRUE), pfx, <<>>)

\* Provider.loadFromEnv(cfg): cfg is the pointer r to a value of type t
loadFromEnv(h, r, t, pfx) ==
    IF r = 0 THEN h ELSE applyEnv(h, Value(r, <<>>, t, TRUE), pfx, <<>>)

-----------------------------------------------------------------------------
(* The segments slice of applyEnv *)

\* A slice is [arr, len, cap]: arr is the index of its backing array in mem, a
\* sequence of arrays, each as long as its capacity. var segments []string is nil.
nilSlice == [arr |-> 0, len |-> 0, cap |-> 0]

\* the elements of a slice
elements(mem, sl) == [i \in 1..sl.len |-> mem[sl.arr][i]]

\* the capacity append grows a full slice of strings to
growCap(old, need) == IF need > 2 * old THEN need ELSE 2 * old

\* append(sl, x): written into the backing array when there is room, into a
\* larger copy otherwise; the memory and the slice it returns
append(mem, sl, x) ==
    IF sl.len < sl.cap
    THEN [mem   |-> [mem EXCEPT ![sl.arr][sl.len + 1] = x],
          slice |-> [sl EXCEPT !.len = sl.len + 1]]
    ELSE LET c == growCap(sl.cap, sl.len + 1)
             a == [i \in 1..c |-> IF i <= sl.len THEN mem[sl.arr][i]
                                  ELSE IF i = sl.len + 1 THEN x ELSE <<>>]
         IN [mem   |-> Append(mem, a),
             slice |-> [arr |-> Len(mem) + 1, len |-> sl.len + 1, cap |-> c]]

\* a lookup: the field, as the indices from the root down, the name, and whether
\* the append that built the name wrote into the backing array of segments
Lookup(path, envName, a, sl) ==
    [path |-> path, name |-> envName, inPlace |-> sl.arr # 0 /\ a.slice.arr = sl.arr]

RECURSIVE namesEnv(_, _, _, _)
RECURSIVE namesFields(_, _, _, _, _)
RECURSIVE namesStep(_, _, _, _, _)

\* the body of the loop of applyEnv for field i of a struct of type t: w holds
\* the memory, the lookups made so far and the variable segments of this call
namesStep(w, t, pfx, path, i) ==
    LET sf == t.fields[i] IN
    IF skipped(sf) THEN w
    ELSE LET seg  == segmentOf(sf)
             ft   == sf.Type
             own  == Append(path, i)
             a1   == append(w.mem, w.segments, seg)
             envName == buildEnvName(pfx, elements(a1.mem, a1.slice))
             a2   == append(a1.mem, w.segments, seg)
             a3   == append(a2.mem, w.segments, seg)
             enter(a, t2) ==
                 [namesEnv([mem |-> a.mem, names |-> w.names, segments |-> a.slice],
                           t2, pfx, own)
                  EXCEPT !.segments = w.segments]
             name(a) == [w EXCEPT !.mem = a.mem, !.names = Append(@, Lookup(own, envName, a, w.segments))]
         IN CASE ft.kind = "struct" -> enter(a2, ft)
              [] ft.kind \in ScalarKinds -> name(a1)
              [] ft.kind = "ptr" ->
                    ( CASE ft.elem.kind = "struct" ->
                             LET base == buildEnvName(pfx, elements(a2.mem, a2.slice)) \o <<"_">>
                                 w2   == [w EXCEPT !.mem = a3.mem,
                                                   !.names = Append(@, Lookup(own, base, a2, w.segments))]
                             IN IF hasAnyEnvWithPrefix(base)
                                THEN [namesEnv([w2 EXCEPT !.segments = a3.slice],
                                               ft.elem, pfx, own)
                                      EXCEPT !.segments = w.segments]
                                ELSE [w EXCEPT !.mem = a2.mem,
                                               !.names = Append(@, Lookup(own, base, a2, w.segments))]
                        [] ft.elem.kind \in ScalarKinds -> name(a1)
                        [] OTHER -> [w EXCEPT !.mem = a1.mem] )
              [] OTHER -> [w EXCEPT !.mem = a1.mem]

\* namesField with segments = append(segments, seg) in the loop
namesField_Reassigned(w, t, pfx, path, i) ==
    LET sf == t.fields[i]
        r  == namesStep(w, t, pfx, path, i)
        a  == append(r.mem, w.segments, segmentOf(sf))
    IN IF skipped(sf) THEN w ELSE [r EXCEPT !.mem = a.mem, !.segments = a.slice]

\* one iteration of the loop: the loop assigns nothing to segments
namesField(w, t, pfx, path, i) ==
    [namesStep(w, t, pfx, path, i) EXCEPT !.segments = w.segments]

\* the loop of applyEnv from field i on
namesFields(w, t, pfx, path, i) ==
    IF i > Len(t.fields) THEN w
    ELSE namesFields(namesField(w, t, pfx, path, i), t, pfx, path, i + 1)

\* applyEnv on a value of type t that is no nil pointer
namesEnv(w, t, pfx, path) ==
    IF t.kind # "struct" THEN w ELSE namesFields(w, t, pfx, path, 1)

\* the lookups of Provider.loadFromEnv(cfg), which calls applyEnv with nil segments
namesOf(h, r, t, pfx) ==
    LET w == [mem |-> <<>>, names |-> <<>>, segments |-> nilSlice] IN
    IF r = 0 THEN <<>>
    ELSE IF t.kind = "ptr"
         THEN IF h[r] = 0 THEN <<>> ELSE namesEnv(w, t.elem, pfx, <<>>).names
    ELSE namesEnv(w, t, pfx, <<>>).names

-----------------------------------------------------------------------------
(* The configuration types the engine is run on *)

\* type envInner of load_from_env_test.go
envInner ==
    StructT(<< StructField(<<"S","t","r">>,  "", <<"S","T","R">>,   StringT),
               StructField(<<"S","k","i","p">>, "", <<"-">>,     StringT),
               StructField(<<"D","u","r">>,  "", <<"D","U","R">>,   DurationT),
               StructField(<<"B">>,    "", <<"B","O","O","L">>,  BoolT),
               StructField(<<"I">>,    "", <<"I","N","T">>,   IntT(64)),
               StructField(<<"U">>,    "", <<"U">>,     UintT(64)),
               StructField(<<"N","e","g","U">>, "", <<"N","E","G","_","U">>, UintT(64)) >>)

\* type envCfg of load_from_env_test.go
envCfg ==
    StructT(<< StructField(<<"S">>,         "", <<>>,       StringT),
               StructField(<<"A","p","i","K","e","y","2","F","A">>, "", <<>>,       StringT),
               StructField(<<"I","n","n","e","r">>,     "", <<"I","N","N","E","R">>,  envInner),
               StructField(<<"P","t","r","I","n","n","e","r">>,  "", <<"P","I","N","N","E","R">>, PtrT(envInner)),
               StructField(<<"P","t","r","S","t","r">>,    "", <<"P","S","T","R">>,   PtrT(StringT)),
               StructField(<<"P","t","r","B","o","o","l">>,   "", <<"P","B","O","O","L">>,  PtrT(BoolT)),
               StructField(<<"P","t","r","I","n","t">>,    "", <<"P","I","N","T">>,   PtrT(IntT(64))),
               StructField(<<"P","t","r","D","u","r">>,    "", <<"P","D","U","R">>,   PtrT(DurationT)),
               StructField(<<"P","t","r","U","i","n","t">>,   "", <<"P","U">>,     PtrT(UintT(64))) >>)

\* a type with the shapes envCfg lacks: an unexported field, narrow integers, a
\* kind and a pointer element applyEnv has no case for, a skipped pointer to a
\* struct, and a tag holding "="
edgeCfg ==
    StructT(<< StructField(<<"h","i","d","d","e","n">>, "config", <<"H","I","D","D","E","N">>, StringT),
               StructField(<<"S","m","a","l","l">>,  "", <<"S","M","A","L","L">>,  IntT(8)),
               StructField(<<"B","y","t","e">>,   "", <<"B","Y","T","E">>,   UintT(8)),
               StructField(<<"S","m","a","l","l","P","t","r">>, "", <<>>, PtrT(IntT(8))),
               StructField(<<"R","a","t","i","o">>,  "", <<"R","A","T","I","O">>,  Float64T),
               StructField(<<"P","R","a","t","i","o">>, "", <<"P","R","A","T","I","O">>, PtrT(Float64T)),
               StructField(<<"O","f","f">>,    "", <<"-">>,      PtrT(envInner)),
               StructField(<<"O","p","t">>,    "", <<"O","=","P">>,    PtrT(envInner)) >>)

\* a struct of one text field
leafCfg == StructT(<< StructField(<<"W">>, "", <<>>, StringT) >>)

\* a type nested four deep, with siblings before and after a nested struct and a
\* pointer to a struct at the depth where append has room in the backing array
deepCfg ==
    LET c == StructT(<< StructField(<<"X">>, "", <<>>, StringT),
                        StructField(<<"D">>, "", <<>>, leafCfg),
                        StructField(<<"P">>, "", <<>>, PtrT(leafCfg)),
                        StructField(<<"Y">>, "", <<>>, StringT) >>)
        b == StructT(<< StructField(<<"C">>, "", <<>>, c),
                        StructField(<<"Z">>, "", <<>>, StringT) >>)
        a == StructT(<< StructField(<<"B">>, "", <<>>, b) >>)
    IN StructT(<< StructField(<<"A">>, "", <<>>, a),
                  StructField(<<"Q">>, "", <<>>, StringT) >>)

\* a type in which two fields and a pointer resolve to the same name and a
\* scalar's name lies under the base of a pointer to a struct
orderCfg ==
    StructT(<< StructField(<<"A">>, "", <<"N">>, StringT),
               StructField(<<"B">>, "", <<"N">>, IntT(64)),
               StructField(<<"P">>, "", <<"P">>, PtrT(leafCfg)),
               StructField(<<"C">>, "", <<"P","_","W">>, StringT),
               StructField(<<"Q">>, "", <<"N">>, PtrT(IntT(64))) >>)

-----------------------------------------------------------------------------
(* Inputs of the engine: environments and targets *)

\* the most variables an environment holds
MaxVars == 2

\* the most calls of loadFromEnv on one target
MaxCalls == 2

\* the goroutines that call Get on one Provider
NumGoroutines == 2

Goroutines == 1..NumGoroutines

APP == <<"A","P","P">>

\* the name under the prefix pfx
Under(pfx, name) == IF pfx = <<>> THEN name ELSE pfx \o <<"_">> \o name

\* variables for envCfg: <<name below the prefix, value>>
envCfgVars ==
    { <<<<"S">>, <<"i","n">>>>,            <<<<"S">>, <<>>>>,
      <<<<"A","P","I","_","K","E","Y","2","F","A">>, <<"i","n">>>>,
      <<<<"I","N","N","E","R","_","S","T","R">>, <<"i","n">>>>,    <<<<"I","N","N","E","R","_","S","K","I","P">>, <<"i","n">>>>,
      <<<<"I","N","N","E","R","_","-">>, <<"i","n">>>>,
      <<<<"I","N","N","E","R","_","D","U","R">>, <<"2","s">>>>,    <<<<"I","N","N","E","R","_","D","U","R">>, <<"i","n">>>>,
      <<<<"I","N","N","E","R","_","B","O","O","L">>, <<"1">>>>,    <<<<"I","N","N","E","R","_","B","O","O","L">>, <<"i","n">>>>,
      <<<<"I","N","N","E","R","_","I","N","T">>, <<" ","4","2"," ">>>>,  <<<<"I","N","N","E","R","_","I","N","T">>, <<"i","n">>>>,
      <<<<"I","N","N","E","R","_","N","E","G","_","U">>, <<"-","3">>>>,  <<<<"I","N","N","E","R","_","N","E","G","_","U">>, <<"1">>>>,
      <<<<"P","I","N","N","E","R","_","S","T","R">>, <<"i","n">>>>,   <<<<"P","I","N","N","E","R","_","S","K","I","P">>, <<"i","n">>>>,
      <<<<"P","I","N","N","E","R","_","X","Y","Z">>, <<"i","n">>>>,   <<<<"P","I","N","N","E","R">>, <<"i","n">>>>,
      <<<<"P","S","T","R">>, <<"i","n">>>>,         <<<<"P","S","T","R">>, <<>>>>,
      <<<<"P","B","O","O","L">>, <<"1">>>>,         <<<<"P","B","O","O","L">>, <<"i","n">>>>,
      <<<<"P","I","N","T">>, <<" ","4","2"," ">>>>,       <<<<"P","I","N","T">>, <<"i","n">>>>,
      <<<<"P","D","U","R">>, <<"2","s">>>>,         <<<<"P","D","U","R">>, <<"i","n">>>>,
      <<<<"P","U">>, <<"1">>>>,            <<<<"P","U">>, <<"-","3">>>> }

\* variables for edgeCfg
edgeCfgVars ==
    { <<<<"H","I","D","D","E","N">>, <<"i","n">>>>,
      <<<<"S","M","A","L","L">>, <<"3","0","0">>>>,   <<<<"S","M","A","L","L">>, <<"-","3">>>>,
      <<<<"S","M","A","L","L">>, <<"-","3","0","0">>>>,  <<<<"S","M","A","L","L">>, <<"i","n">>>>,
      <<<<"B","Y","T","E">>, <<"3","0","0">>>>,    <<<<"B","Y","T","E">>, <<"-","3">>>>,
      <<<<"S","M","A","L","L","_","P","T","R">>, <<"3","0","0">>>>, <<<<"S","M","A","L","L","_","P","T","R">>, <<"i","n">>>>,
      <<<<"R","A","T","I","O">>, <<"1">>>>,     <<<<"P","R","A","T","I","O">>, <<"1">>>>,
      <<<<"O","F","F","_","S","T","R">>, <<"i","n">>>>,  <<<<"-","_","S","T","R">>, <<"i","n">>>>,  <<<<"O">>, <<"P","_","x">>>> }

\* a target whose fields all hold zero values
zeroTarget(t) == [heap |-> <<Zero(t)>>, root |-> 1]

\* an envCfg whose fields were set and whose pointers, but PtrDur, were allocated
envCfgSet ==
    [ heap |-> << << <<"o","l","d">>, <<"k","e","y">>,
                     << <<"o","l","d">>, <<"k","e","e","p">>, 7, TRUE, 5, 6, 9 >>,
                     2, 3, 4, 5, 0, 6 >>,
                  << <<"o","l","d">>, <<"k","e","e","p">>, 7, TRUE, 5, 6, 9 >>,
                  <<"o","l","d">>, TRUE, 5, 9 >>,
      root |-> 1 ]

\* an edgeCfg whose fields were set and whose pointers, but Opt, were allocated
edgeCfgSet ==
    [ heap |-> << << <<"o","l","d">>, 5, 6, 2, 1, 3, 4, 0 >>,
                  7, 1, << <<"o","l","d">>, <<"k","e","e","p">>, 7, TRUE, 5, 6, 9 >> >>,
      root |-> 1 ]

\* an envCfg whose text fields were set and whose pointers are all nil
envCfgTexts ==
    [ heap |-> << [Zero(envCfg) EXCEPT ![1] = <<"o","l","d">>, ![2] = <<"k","e","y">>] >>, root |-> 1 ]

\* variables for deepCfg
deepCfgVars ==
    { <<<<"A","_","B","_","C","_","X">>, <<"x">>>>, <<<<"A","_","B","_","C","_","D","_","W">>, <<"w">>>>, <<<<"A","_","B","_","C","_","P","_","W">>, <<"p">>>>,
      <<<<"A","_","B","_","C","_","Y">>, <<"y">>>>, <<<<"A","_","B","_","Z">>, <<"z">>>>, <<<<"Q">>, <<"q">>>>,
      <<<<"A","_","B","_","C","_","D","_","Y">>, <<"n">>>>, <<<<"A","_","B","_","C","_","P","_","Y">>, <<"n">>>> }

\* variables for orderCfg
orderCfgVars ==
    { <<<<"N">>, <<"7">>>>, <<<<"N">>, <<"i","n">>>>, <<<<"P","_","W">>, <<"w">>>>, <<<<"P","_","Z">>, <<"z">>>> }

\* an orderCfg whose fields were set and whose pointers were allocated
orderCfgSet ==
    [ heap |-> << << <<"o","l","d">>, 5, 2, <<"o","l","d">>, 3 >>, << <<"k","e","e","p">> >>, 9 >>, root |-> 1 ]

\* loadFromEnv(nil)
nilTarget == [heap |-> <<>>, root |-> 0]

\* variables for a target that is no struct
plainVars == { <<<<"I","N","T">>, <<"7">>>>, <<<<"S">>, <<"i","n">>>>, <<<<"I","N","N","E","R","_","S","T","R">>, <<"i","n">>>> }

\* the configuration type of the Provider: Name string env:"NAME",
\* Port int env:"PORT"
mCfg ==
    StructT(<< StructField(<<"N","a","m","e">>, "", <<"N","A","M","E">>, StringT),
               StructField(<<"P","o","r","t">>, "", <<"P","O","R","T">>, IntT(64)) >>)

\* the type with the given name
TypeNamed(n) ==
    CASE n = "envCfg"  -> envCfg
      [] n = "edgeCfg" -> edgeCfg
      [] n = "mCfg"    -> mCfg
      [] n = "deepCfg" -> deepCfg
      [] n = "orderCfg" -> orderCfg
      [] n = "int"     -> IntT(64)
      [] n = "*int"    -> PtrT(IntT(64))
      [] n = "*envCfg" -> PtrT(envCfg)

\* the inputs: a type, the variables that may be set for it, the targets
Inputs ==
    { [type |-> "envCfg",  vars |-> envCfgVars,
       targets |-> {zeroTarget(envCfg), envCfgSet, envCfgTexts, nilTarget}],
      [type |-> "edgeCfg", vars |-> edgeCfgVars,
       targets |-> {zeroTarget(edgeCfg), edgeCfgSet}],
      [type |-> "deepCfg", vars |-> deepCfgVars,
       targets |-> {zeroTarget(deepCfg)}],
      [type |-> "orderCfg", vars |-> orderCfgVars,
       targets |-> {zeroTarget(orderCfg), orderCfgSet}],
      [type |-> "int",     vars |-> plainVars,
       targets |-> {nilTarget, [heap |-> <<5>>, root |-> 1]}],
      [type |-> "*int",    vars |-> plainVars,
       targets |-> {zeroTarget(PtrT(IntT(64))), [heap |-> <<2, 5>>, root |-> 1]}],
      [type |-> "*envCfg", vars |-> plainVars,
       targets |-> {zeroTarget(PtrT(envCfg))}] }

\* the subsets of s of at most k elements
RECURSIVE UpTo(_, _)
UpTo(s, k) ==
    IF k = 0 THEN {{}}
    ELSE LET smaller == UpTo(s, k - 1)
         IN smaller \cup {p \cup {x} : p \in smaller, x \in s}

\* the environments over the given variables: at most MaxVars of them, no name twice
Environments(pfx, vs) ==
    { {<<Under(pfx, e[1]), e[2]>> : e \in es} :
        es \in { x \in UpTo(vs, MaxVars) : \A a, b \in x : a[1] = b[1] => a = b } }

\* no call of buildEnvName or toScreamingSnake was made
NoName ==
    [fn |-> "none", prefix |-> <<>>, segments |-> <<>>, s |-> <<>>, done |-> FALSE,
     result |-> <<>>]

\* an error is the set of the errors it matches under errors.Is/As; nil is {}
nil == {}

-----------------------------------------------------------------------------
(* ThreadSafeBuffersStreams: the buffers and the goroutines that use them *)

\* the goroutines that write
NumWriters == 2

\* the number of bytes of the p of a Write
ChunkLen == 2

Writers == 1..NumWriters

\* the goroutine that calls Strings and the goroutine that calls Reset
Reader == NumWriters + 1
Resetter == NumWriters + 2

Tasks == Writers \cup {Reader, Resetter}

\* &tsBuf{}: mu is the goroutine holding the mutex (0 when it is unlocked), b
\* the bytes of the bytes.Buffer
tsBuf == [mu |-> 0, b |-> <<>>]

\* ThreadSafeBuffers()
ThreadSafeBuffers == [OutBuf |-> tsBuf, ErrBuf |-> tsBuf]

\* ts.Out() and ts.ErrOut(), as the names of the fields they return
Out == "OutBuf"
ErrOut == "ErrBuf"

\* the p of the Write of writer w: bytes no other Write has
Chunk(w) == [i \in 1..ChunkLen |-> <<w, i>>]

\* a goroutine that has made no call. buf is the tsBuf the call is at, n the
\* bytes of p copied so far, out and err what Strings has read; early records
\* that a Write returned before Reset was called, after that Strings was called
\* after Reset returned
NoTask ==
    [fn |-> "none", pc |-> "idle", buf |-> Out, n |-> 0, out |-> <<>>, err |-> <<>>,
     early |-> FALSE, after |-> FALSE]

NoTasks == [g \in Tasks |-> NoTask]

-----------------------------------------------------------------------------
\* no call of writeToFile or loadFromFile was made; fs and heap are the file
\* system and the heap as they were when the call started
NoCall ==
    [fn |-> "none", path |-> <<>>, fs |-> <<>>, heap |-> <<>>, done |-> FALSE, err |-> nil]

\* a Provider after New(opts...), opts being the names of the options given;
\* cfg and envPrefix are the variables root and prefix
New(opts) ==
    [ persist     |-> "WithPersistence" \in opts,
      dirName     |-> IF "WithPersistence" \in opts THEN <<"a","p","p">> ELSE <<>>,
      defaultFn   |-> IF "WithDefaultFn" \in opts THEN "defFn" ELSE "zero",
      streams     |-> "WithStreams" \in opts,
      modelInit   |-> "WithModel" \in opts,
      configPath  |-> <<>>,
      fileCreated |-> FALSE,
      initErr     |-> nil,
      model       |-> FALSE ]

\* what a goroutine holds before its first Get returns
NoResult == [cfg |-> 0, path |-> <<>>, fileCreated |-> FALSE, err |-> nil, seen |-> <<>>]

InitEnv ==
    /\ \E in \in Inputs :
         /\ rootType = in.type
         /\ prefix \in {<<>>, APP}
         /\ environ \in Environments(prefix, in.vars)
         /\ \E tg \in in.targets : heap = tg.heap /\ root = tg.root
    /\ before = heap
    /\ calls = 0
    /\ naming = NoName
    /\ looked = <<>>
    /\ m = New({})
    /\ once = [done |-> FALSE, m |-> 0]
    /\ files = <<>>
    /\ pc = [g \in Goroutines |-> "idle"]
    /\ ret = [g \in Goroutines |-> NoResult]
    /\ log = <<>>
    /\ out = <<>>
    /\ fcall = NoCall
    /\ ts = ThreadSafeBuffers
    /\ task = NoTasks

\* Provider.loadFromEnv(cfg) on the target
LoadFromEnv ==
    /\ calls < MaxCalls
    /\ before' = heap
    /\ heap' = loadFromEnv(heap, root, TypeNamed(rootType), prefix)
    /\ calls' = calls + 1
    /\ looked' = namesOf(heap, root, TypeNamed(rootType), prefix)
    /\ UNCHANGED <<environ, root, rootType, prefix, naming, providerVars, streamVars>>

NextEnv == LoadFromEnv

SpecEnv == InitEnv /\ [][NextEnv]_vars

-----------------------------------------------------------------------------
(* The name functions on their own *)

\* the most segments of a name
MaxSegments == 2

\* the longest identifier enumerated
MaxIdent == 3

\* the sequences over S of at most n elements
SeqsUpTo(S, n) == UNION { [1..k -> S] : k \in 0..n }

Prefixes == { <<>>, <<"P">>, APP }

SegmentTexts == { <<>>, <<"A">>, <<"B","_","C">> }

IdentChars == { "a", "k", "A", "F", "2", "_" }

\* all short identifiers, and some of the field names of the tests
Identifiers ==
    SeqsUpTo(IdentChars, MaxIdent) \cup { <<"A","p","i","K","e","y","2","F","A">>, <<"P","t","r","I","n","n","e","r">>, <<"H","T","T","P","S","e","r","v","e","r","2">> }

InitNames ==
    /\ naming \in
          { [NoName EXCEPT !.fn = "buildEnvName", !.prefix = p, !.segments = sg] :
                p \in Prefixes, sg \in SeqsUpTo(SegmentTexts, MaxSegments) }
          \cup { [NoName EXCEPT !.fn = "toScreamingSnake", !.s = id] : id \in Identifiers }
    /\ looked = <<>>
    /\ environ = {}
    /\ heap = <<>>
    /\ root = 0
    /\ rootType = "envCfg"
    /\ prefix = <<>>
    /\ before = <<>>
    /\ calls = 0
    /\ m = New({})
    /\ once = [done |-> FALSE, m |-> 0]
    /\ files = <<>>
    /\ pc = [g \in Goroutines |-> "idle"]
    /\ ret = [g \in Goroutines |-> NoResult]
    /\ log = <<>>
    /\ out = <<>>
    /\ fcall = NoCall
    /\ ts = ThreadSafeBuffers
    /\ task = NoTasks

\* buildEnvName(prefix, segments)
BuildEnvName ==
    /\ naming.fn = "buildEnvName" /\ ~naming.done
    /\ naming' = [naming EXCEPT !.done = TRUE,
                                !.result = buildEnvName(naming.prefix, naming.segments)]
    /\ UNCHANGED <<environ, heap, root, rootType, prefix, before, calls, looked, providerVars, streamVars>>

\* toScreamingSnake(s)
ToScreamingSnake ==
    /\ naming.fn = "toScreamingSnake" /\ ~naming.done
    /\ naming' = [naming EXCEPT !.done = TRUE, !.result = toScreamingSnake(naming.s)]
    /\ UNCHANGED <<environ, heap, root, rootType, prefix, before, calls, looked, providerVars, streamVars>>

NextNames == BuildEnvName \/ ToScreamingSnake

SpecNames == InitNames /\ [][NextNames]_vars

-----------------------------------------------------------------------------
(* The file system and the collaborators of Provider.Get *)

configFileName == <<"c","o","n","f","i","g",".","y","m","l">>

\* filepath.Ext: the suffix from the last dot of the last element
RECURSIVE ExtFrom(_, _)
ExtFrom(path, i) ==
    IF i = 0 \/ path[i] = "/" THEN <<>>
    ELSE IF path[i] = "." THEN SubSeq(path, i, Len(path))
    ELSE ExtFrom(path, i - 1)

Ext(path) == ExtFrom(path, Len(path))

\* filepath.Dir: the path without its last element
RECURSIVE DirFrom(_, _)
DirFrom(path, i) ==
    IF i = 0 THEN <<".">>
    ELSE IF path[i] = "/" THEN (IF i = 1 THEN <<"/">> ELSE SubSeq(path, 1, i - 1))
    ELSE DirFrom(path, i - 1)

Dir(path) == DirFrom(path, Len(path))

\* filepath.Join of clean elements: the empty ones are dropped
filepathJoin(elems) == Join(SelectSeq(elems, LAMBDA e : e # <<>>), <<"/">>)

\* os.Getenv: the value, empty when the variable is not set
Getenv(name) == LET r == LookupEnv(name) IN IF r.ok THEN r.val ELSE <<>>

\* what a path holds: a directory, or a file whose text parses or not and sets
\* some of the fields of the configuration (fields[i] is [ok, val])
Directory == [dir |-> TRUE, parses |-> FALSE, fields |-> <<>>]

File(parses, fields) == [dir |-> FALSE, parses |-> parses, fields |-> fields]

Exists(fs, path) == path \in DOMAIN fs

\* yaml.Marshal / json.MarshalIndent of a flat struct: every field is written
Marshal(val) == File(TRUE, [i \in 1..Len(val) |-> Found(val[i])])

\* a load that only fills the fields that hold their zero value
Unmarshal_FillsZeroOnly(file, val) ==
    [i \in 1..Len(val) |->
        IF file.fields[i].ok /\ val[i] = Zero(mCfg)[i] THEN file.fields[i].val ELSE val[i]]

\* yaml.Unmarshal / json.Unmarshal into a flat struct: the fields the text sets
\* are overwritten, the others are kept
Unmarshal(file, val) ==
    [i \in 1..Len(val) |-> IF file.fields[i].ok THEN file.fields[i].val ELSE val[i]]

SupportedExts == { <<".","y","a","m","l">>, <<".","y","m","l">>, <<".","j","s","o","n">> }

\* loadFromFile reading the file before it tests the extension
loadFromFile_ReadFirst(fs, path, h, r) ==
    IF path = <<>> THEN [err |-> nil, heap |-> h]
    ELSE IF ~Exists(fs, path)
         THEN [err |-> {"os.ErrNotExist", "*fs.PathError"}, heap |-> h]
    ELSE IF fs[path].dir
         THEN [err |-> {"*fs.PathError"}, heap |-> h]
    ELSE IF Ext(path) \notin SupportedExts
         THEN [err |-> {"ErrUnsupportedConfigFileType"}, heap |-> h]
    ELSE IF ~fs[path].parses
         THEN [err |-> {"ErrParse"}, heap |-> h]
    ELSE [err |-> nil, heap |-> [h EXCEPT ![r] = Unmarshal(fs[path], @)]]

\* loadFromFile(path, cfg) with cfg the pointer r: [err, heap]
loadFromFile(fs, path, h, r) ==
    IF path = <<>> THEN [err |-> nil, heap |-> h]
    ELSE IF Ext(path) \notin SupportedExts
         THEN [err |-> {"ErrUnsupportedConfigFileType"}, heap |-> h]
    ELSE IF ~Exists(fs, path)
         THEN [err |-> {"os.ErrNotExist", "*fs.PathError"}, heap |-> h]
    ELSE IF fs[path].dir
         THEN [err |-> {"*fs.PathError"}, heap |-> h]
    ELSE IF ~fs[path].parses
         THEN [err |-> {"ErrParse"}, heap |-> h]
    ELSE [err |-> nil, heap |-> [h EXCEPT ![r] = Unmarshal(fs[path], @)]]

\* the directories MkdirAll(dir) makes: dir and every directory above it
RECURSIVE Ancestors(_)
Ancestors(dir) ==
    IF dir \in {<<"/">>, <<".">>} THEN {} ELSE {dir} \cup Ancestors(Dir(dir))

\* EnsurePath(p), mkdirOk telling whether MkdirAll succeeds: [err, fs]
EnsurePath(fs, p, mkdirOk) ==
    IF Exists(fs, p)
    THEN [err |-> IF fs[p].dir THEN {"ErrInaccessiblePath"} ELSE nil, fs |-> fs]
    ELSE IF ~mkdirOk THEN [err |-> {"ErrCannotCreateDirectories"}, fs |-> fs]
    ELSE [err |-> nil,
          fs  |-> [d \in Ancestors(Dir(p)) \ DOMAIN fs |-> Directory] @@ fs]

\* how far writeToFile gets when the operating system lets it
WriteOutcomes ==
    {"written", "marshal fails", "encoder panics", "temp file fails", "write fails",
     "close fails", "rename fails"}

\* a directory that is there: the root and the working directory always are
IsDir(fs, dir) == dir \in {<<"/">>, <<".">>} \/ (Exists(fs, dir) /\ fs[dir].dir)

\* a name os.CreateTemp(dir, "temp-config-*"+ext) can draw
TempName(dir, ext, n) == filepathJoin(<<dir, <<"t","e","m","p","-","c","o","n","f","i","g","-">> \o n \o ext>>)

\* a file that holds only a part of the bytes
Partial == File(FALSE, <<>>)

\* os.CreateTemp(dir, pattern): an empty file under a name that is not taken
CreateTemp(fs, dir, ext, allowed) ==
    LET n1 == TempName(dir, ext, <<"1">>)
        n2 == TempName(dir, ext, <<"2">>)
        n  == IF Exists(fs, n1) THEN n2 ELSE n1
    IN IF ~allowed \/ ~IsDir(fs, dir) \/ Exists(fs, n)
       THEN [ok |-> FALSE, name |-> <<>>, fs |-> fs]
       ELSE [ok |-> TRUE, name |-> n, fs |-> (n :> File(TRUE, <<>>)) @@ fs]

\* os.Remove that leaves the file where it is
Remove_Nothing(fs, name) == fs

\* os.Remove(name): the error of removing what is not there is ignored
Remove(fs, name) == [p \in DOMAIN fs \ {name} |-> fs[p]]

\* os.Rename(old, new): a file replaces a file, never a directory
Rename(fs, old, new, allowed) ==
    IF ~allowed \/ (Exists(fs, new) /\ fs[new].dir)
    THEN [ok |-> FALSE, fs |-> fs]
    ELSE [ok |-> TRUE, fs |-> (new :> fs[old]) @@ Remove(fs, old)]

\* writeToFile(path, cfg) with cfg holding val: [err, fs]
writeToFile(fs, path, val, outcome) ==
    LET ext     == Ext(path)
        tmp     == CreateTemp(fs, Dir(path), ext, outcome # "temp file fails")
        written == (tmp.name :> Marshal(val)) @@ tmp.fs
        renamed == Rename(written, tmp.name, path, outcome # "rename fails")
    IN  IF ext # <<>> /\ ext \notin SupportedExts
        THEN [err |-> {"ErrUnsupportedConfigFileType"}, fs |-> fs]
        ELSE IF outcome \in {"marshal fails", "encoder panics"}
        THEN [err |-> {"ErrFormat"}, fs |-> fs]
        ELSE IF ~tmp.ok
        THEN [err |-> {"*fs.PathError"}, fs |-> fs]
        ELSE IF outcome = "write fails"
        THEN [err |-> {"ErrWrite", "*fs.PathError"},
              fs  |-> Remove((tmp.name :> Partial) @@ tmp.fs, tmp.name)]
        ELSE IF outcome = "close fails"
        THEN [err |-> {"*fs.PathError"}, fs |-> Remove(written, tmp.name)]
        ELSE IF ~renamed.ok
        THEN [err |-> {"*os.LinkError"}, fs |-> Remove(renamed.fs, tmp.name)]
        ELSE [err |-> nil, fs |-> Remove(renamed.fs, tmp.name)]

\* os.UserConfigDir(): the platform directory, or an error when neither
\* XDG_CONFIG_HOME nor HOME is defined
UserConfigDirs == { Found(<<"/","h">>), [ok |-> FALSE, val |-> <<>>] }

\* a resolution that prefers the persistent path to PREFIX_CONFIG_PATH
resolveConfigPath_PersistFirst(ucd) ==
    LET fromEnv == IF prefix # <<>> THEN Getenv(prefix \o <<"_","C","O","N","F","I","G","_","P","A","T","H">>) ELSE <<>>
        xdg     == Getenv(<<"X","D","G","_","C","O","N","F","I","G","_","H","O","M","E">>)
        userConfigDir == IF xdg # <<>> THEN Found(xdg) ELSE ucd
    IN  IF m.dirName # <<>> /\ userConfigDir.ok
        THEN [err |-> nil,
              configPath |-> filepathJoin(<<userConfigDir.val, m.dirName, configFileName>>),
              warned |-> FALSE]
        ELSE [err |-> nil, configPath |-> fromEnv, warned |-> FALSE]

\* Provider.resolveConfigPath(), ucd being what os.UserConfigDir() answers:
\* [err, configPath, warned]
resolveConfigPath(ucd) ==
    LET fromEnv == IF prefix # <<>> THEN Getenv(prefix \o <<"_","C","O","N","F","I","G","_","P","A","T","H">>) ELSE <<>>
        xdg     == Getenv(<<"X","D","G","_","C","O","N","F","I","G","_","H","O","M","E">>)
        userConfigDir == IF xdg # <<>> THEN Found(xdg) ELSE ucd
    IN  IF fromEnv # <<>>
        THEN [err |-> nil, configPath |-> fromEnv, warned |-> FALSE]
        ELSE IF m.dirName = <<>>
        THEN [err |-> nil, configPath |-> m.configPath, warned |-> FALSE]
        ELSE IF ~userConfigDir.ok
        THEN IF m.persist
             THEN [err |-> {"UserConfigDir"}, configPath |-> m.configPath, warned |-> FALSE]
             ELSE [err |-> nil, configPath |-> m.configPath, warned |-> m.streams]
        ELSE [err |-> nil,
              configPath |-> filepathJoin(<<userConfigDir.val, m.dirName, configFileName>>),
              warned |-> FALSE]

\* m.defaultFn(): the registered factory, or the zero-value fallback of New
defaultFn(fn) ==
    IF fn = "defFn" THEN << <<"f","a","c","t","o","r","y">>, 0 >> ELSE Zero(mCfg)

\* model.SetDefaults on mCfg: default:"svc" and default:"8080" fill zero values
SetDefaults(val) ==
    << IF val[1] = <<>> THEN <<"s","v","c">> ELSE val[1],
       IF val[2] = 0 THEN 8080 ELSE val[2] >>

\* model.Validate on mCfg: Name nonempty, Port positive and nonzero
Validate(val) ==
    IF val[1] # <<>> /\ val[2] > 0 THEN nil ELSE {"*model.ValidationError"}

-----------------------------------------------------------------------------
(* Provider.Get *)

\* a Once that never sees done set
initialised_Never == FALSE

\* Once.Do taking a set cfg for a finished initialisation
initialised_CfgSet == root # 0

\* o.done.Load() != 0 of sync.Once
initialised == once.done

\* Once.doSlow without its mutex
unlocked_NoMutex == TRUE

\* o.m.Lock() of sync.Once can be taken
unlocked == once.m = 0

\* an initialisation that applies the environment before the file
stepAfter_EnvBeforeFile(step) ==
    CASE step = "defaultFn"         -> IF m.modelInit THEN "modelInit" ELSE "resolveConfigPath"
      [] step = "modelInit"         -> "SetDefaults"
      [] step = "SetDefaults"       -> "resolveConfigPath"
      [] step = "resolveConfigPath" -> "loadFromEnv"
      [] step = "loadFromEnv"       -> "loadFromFile"
      [] step = "loadFromFile"      -> IF m.model THEN "Validate" ELSE "store"
      [] step = "Validate"          -> "store"

\* an initialisation that validates before the environment is applied
stepAfter_ValidateBeforeEnv(step) ==
    CASE step = "defaultFn"         -> IF m.modelInit THEN "modelInit" ELSE "resolveConfigPath"
      [] step = "modelInit"         -> "SetDefaults"
      [] step = "SetDefaults"       -> "resolveConfigPath"
      [] step = "resolveConfigPath" -> "loadFromFile"
      [] step = "loadFromFile"      -> IF m.model THEN "Validate" ELSE "loadFromEnv"
      [] step = "Validate"          -> "loadFromEnv"
      [] step = "loadFromEnv"       -> "store"

\* the step of the initialisation that follows a step that did not return
stepAfter(step) ==
    CASE step = "defaultFn"         -> IF m.modelInit THEN "modelInit" ELSE "resolveConfigPath"
      [] step = "modelInit"         -> "SetDefaults"
      [] step = "SetDefaults"       -> "resolveConfigPath"
      [] step = "resolveConfigPath" -> "loadFromFile"
      [] step = "loadFromFile"      -> "loadFromEnv"
      [] step = "loadFromEnv"       -> IF m.model THEN "Validate" ELSE "store"
      [] step = "Validate"          -> "store"

\* a Get that returns the cached state next to the error
result_CachedState ==
    [cfg |-> root, path |-> m.configPath, fileCreated |-> m.fileCreated, err |-> m.initErr,
     seen |-> IF root = 0 THEN <<>> ELSE heap[root]]

\* the statements of Get after initOnce.Do: what the caller receives, seen
\* being what it reads through the pointer
result ==
    IF m.initErr # nil
    THEN [cfg |-> 0, path |-> <<>>, fileCreated |-> FALSE, err |-> m.initErr, seen |-> <<>>]
    ELSE [cfg |-> root, path |-> m.configPath, fileCreated |-> m.fileCreated, err |-> nil,
          seen |-> IF root = 0 THEN <<>> ELSE heap[root]]

Goto(g, label) == pc' = [pc EXCEPT ![g] = label]

\* a goroutine calls Get, for the first time or again, and enters Once.Do:
\* the fast path when done is set, else doSlow
Call(g) ==
    /\ pc[g] \in {"idle", "returned"}
    /\ Goto(g, IF initialised THEN "after" ELSE "lock")
    /\ UNCHANGED <<fcall, streamVars, engineVars, m, once, files, ret, log, out>>

\* Once.doSlow: take the mutex, look at done again
OnceLock(g) ==
    /\ pc[g] = "lock"
    /\ unlocked
    /\ once' = [once EXCEPT !.m = g]
    /\ Goto(g, IF initialised THEN "unlock" ELSE "defaultFn")
    /\ UNCHANGED <<fcall, streamVars, engineVars, m, files, ret, log, out>>

\* 1) m.cfg = m.defaultFn()
DefaultFn(g) ==
    /\ pc[g] = "defaultFn"
    /\ heap' = Append(heap, defaultFn(m.defaultFn))
    /\ root' = Len(heap) + 1
    /\ log' = Append(log, "defaultFn")
    /\ Goto(g, stepAfter("defaultFn"))
    /\ UNCHANGED <<fcall, streamVars, environ, rootType, prefix, before, calls, naming, looked, m, once, files, ret, out>>

\* 2) m.modelInit(m.cfg), which the caller supplies and which may fail
ModelInit(g) ==
    /\ pc[g] = "modelInit"
    /\ log' = Append(log, "modelInit")
    /\ \E ok \in BOOLEAN :
         IF ok
         THEN m' = [m EXCEPT !.model = TRUE] /\ Goto(g, stepAfter("modelInit"))
         ELSE m' = [m EXCEPT !.initErr = {"modelInit"}] /\ Goto(g, "store")
    /\ UNCHANGED <<fcall, streamVars, engineVars, once, files, ret, out>>

\* 2) m.model.SetDefaults(), which fails on a malformed default tag
SetDefaultsStep(g) ==
    /\ pc[g] = "SetDefaults"
    /\ log' = Append(log, "SetDefaults")
    /\ \E ok \in BOOLEAN :
         IF ok
         THEN /\ heap' = [heap EXCEPT ![root] = SetDefaults(@)]
              /\ Goto(g, stepAfter("SetDefaults"))
              /\ UNCHANGED m
         ELSE /\ m' = [m EXCEPT !.initErr = {"SetDefaults"}]
              /\ Goto(g, "store")
              /\ UNCHANGED heap
    /\ UNCHANGED <<fcall, streamVars, environ, root, rootType, prefix, before, calls, naming, looked, once, files, ret, out>>

\* a Get that goes on to the file operations when the path cannot be resolved
ResolveConfigPath_GoesOn(g) ==
    /\ pc[g] = "resolveConfigPath"
    /\ log' = Append(log, "resolveConfigPath")
    /\ \E ucd \in UserConfigDirs :
         LET r == resolveConfigPath(ucd)
         IN /\ m' = [m EXCEPT !.configPath = r.configPath, !.initErr = IF r.err # nil THEN r.err ELSE @]
            /\ out' = IF r.warned THEN Append(out, <<"ErrOut", "warning">>) ELSE out
            /\ Goto(g, stepAfter("resolveConfigPath"))
    /\ UNCHANGED <<fcall, streamVars, engineVars, once, files, ret>>

\* 3) m.resolveConfigPath()
ResolveConfigPath(g) ==
    /\ pc[g] = "resolveConfigPath"
    /\ log' = Append(log, "resolveConfigPath")
    /\ \E ucd \in UserConfigDirs :
         LET r == resolveConfigPath(ucd)
         IN /\ m' = [m EXCEPT !.configPath = r.configPath, !.initErr = IF r.err # nil THEN r.err ELSE @]
            /\ out' = IF r.warned THEN Append(out, <<"ErrOut", "warning">>) ELSE out
            /\ Goto(g, IF r.err # nil THEN "store" ELSE stepAfter("resolveConfigPath"))
    /\ UNCHANGED <<fcall, streamVars, engineVars, once, files, ret>>

\* 4) the file operations: load the file; in persistent mode create it when it
\* is missing. mkdirOk and outcome tell how far the creation gets.
FileStep(g) ==
    /\ pc[g] = "loadFromFile"
    /\ \E mkdirOk \in BOOLEAN, outcome \in WriteOutcomes :
         LET e  == loadFromFile(files, m.configPath, heap, root)
             pe == EnsurePath(files, m.configPath, mkdirOk)
             we == writeToFile(pe.fs, m.configPath, heap[root], outcome)
             notExist == "os.ErrNotExist" \in e.err
         IN CASE e.err # nil /\ ~notExist ->
                   /\ m' = [m EXCEPT !.initErr = e.err]
                   /\ log' = Append(log, "loadFromFile")
                   /\ Goto(g, stepAfter("loadFromFile"))
                   /\ UNCHANGED <<heap, files, out>>
              [] e.err # nil /\ notExist /\ m.persist ->
                   IF pe.err # nil
                   THEN /\ m' = [m EXCEPT !.initErr = {"ErrEnsureConfigDir"} \cup pe.err]
                        /\ log' = log \o <<"loadFromFile", "EnsurePath">>
                        /\ Goto(g, "store")
                        /\ UNCHANGED <<heap, files, out>>
                   ELSE IF we.err # nil
                   THEN /\ m' = [m EXCEPT !.initErr = {"ErrWrite"} \cup we.err]
                        /\ files' = we.fs
                        /\ log' = log \o <<"loadFromFile", "EnsurePath", "writeToFile">>
                        /\ Goto(g, "store")
                        /\ UNCHANGED <<heap, out>>
                   ELSE /\ m' = [m EXCEPT !.fileCreated = TRUE]
                        /\ files' = we.fs
                        /\ out' = IF m.streams THEN Append(out, <<"Out", "created new config">>)
                                  ELSE out
                        /\ log' = log \o <<"loadFromFile", "EnsurePath", "writeToFile">>
                        /\ Goto(g, stepAfter("loadFromFile"))
                        /\ UNCHANGED heap
              [] e.err = nil /\ m.persist ->
                   /\ heap' = e.heap
                   /\ out' = IF m.streams THEN Append(out, <<"Out", "loaded from">>) ELSE out
                   /\ log' = Append(log, "loadFromFile")
                   /\ Goto(g, stepAfter("loadFromFile"))
                   /\ UNCHANGED <<m, files>>
              [] OTHER ->
                   /\ heap' = e.heap
                   /\ log' = Append(log, "loadFromFile")
                   /\ Goto(g, stepAfter("loadFromFile"))
                   /\ UNCHANGED <<m, files, out>>
    /\ UNCHANGED <<fcall, streamVars, environ, root, rootType, prefix, before, calls, naming, looked, once, ret>>

\* an environment step that saves the configuration to the file Get created
EnvStep_Saves(g) ==
    /\ pc[g] = "loadFromEnv"
    /\ before' = heap
    /\ heap' = loadFromEnv(heap, root, TypeNamed(rootType), prefix)
    /\ calls' = calls + 1
    /\ looked' = namesOf(heap, root, TypeNamed(rootType), prefix)
    /\ files' = IF m.fileCreated
                THEN [files EXCEPT ![m.configPath] = Marshal(heap'[root])]
                ELSE files
    /\ log' = Append(log, "loadFromEnv")
    /\ Goto(g, stepAfter("loadFromEnv"))
    /\ UNCHANGED <<fcall, streamVars, environ, root, rootType, prefix, naming, m, once, ret, out>>

\* 5) m.loadFromEnv(m.cfg)
EnvStep(g) ==
    /\ pc[g] = "loadFromEnv"
    /\ before' = heap
    /\ heap' = loadFromEnv(heap, root, TypeNamed(rootType), prefix)
    /\ calls' = calls + 1
    /\ looked' = namesOf(heap, root, TypeNamed(rootType), prefix)
    /\ log' = Append(log, "loadFromEnv")
    /\ Goto(g, stepAfter("loadFromEnv"))
    /\ UNCHANGED <<fcall, streamVars, environ, root, rootType, prefix, naming, m, once, files, ret, out>>

\* 6) m.model.Validate()
ValidateStep(g) ==
    /\ pc[g] = "Validate"
    /\ m' = [m EXCEPT !.initErr = IF Validate(heap[root]) # nil THEN Validate(heap[root]) ELSE @]
    /\ log' = Append(log, "Validate")
    /\ Goto(g, stepAfter("Validate"))
    /\ UNCHANGED <<fcall, streamVars, engineVars, once, files, ret, out>>

\* Once.doSlow, after f returned: the deferred o.done.Store(1)
OnceStore(g) ==
    /\ pc[g] = "store"
    /\ once' = [once EXCEPT !.done = TRUE]
    /\ Goto(g, "unlock")
    /\ UNCHANGED <<fcall, streamVars, engineVars, m, files, ret, log, out>>

\* Once.doSlow: the deferred o.m.Unlock()
OnceUnlock(g) ==
    /\ pc[g] = "unlock"
    /\ once' = [once EXCEPT !.m = 0]
    /\ Goto(g, "after")
    /\ UNCHANGED <<fcall, streamVars, engineVars, m, files, ret, log, out>>

\* Get returns the cached state or the error
Return(g) ==
    /\ pc[g] = "after"
    /\ ret' = [ret EXCEPT ![g] = result]
    /\ Goto(g, "returned")
    /\ UNCHANGED <<fcall, streamVars, engineVars, m, once, files, log, out>>

\* the options New is called with, in every combination
Options == {"WithPersistence", "WithEnvPrefix", "WithDefaultFn", "WithStreams", "WithModel"}

OptionSets == SUBSET Options

\* the variables that override the fields of mCfg, below the prefix
FieldOverrides ==
    { {},
      { <<<<"N","A","M","E">>, <<"f","r","o","m","e","n","v">>>>, <<<<"P","O","R","T">>, <<"i","n">>>> },
      { <<<<"P","O","R","T">>, <<"9","0","9","0">>>> },
      { <<<<"N","A","M","E">>, <<>>>>, <<<<"P","O","R","T">>, <<"0">>>> } }

\* the variables that decide the path of the file
PathVariables(pfx) ==
    { {}, { <<<<"X","D","G","_","C","O","N","F","I","G","_","H","O","M","E">>, <<"/","x">>>> } }
    \cup IF pfx = <<>> THEN {}
         ELSE { { <<pfx \o <<"_","C","O","N","F","I","G","_","P","A","T","H">>, <<"/","e","/","c",".","y","a","m","l">>>> },
                { <<pfx \o <<"_","C","O","N","F","I","G","_","P","A","T","H">>, <<"/","e","/","c",".","t","x","t">>>> },
                { <<pfx \o <<"_","C","O","N","F","I","G","_","P","A","T","H">>, <<>>>>, <<<<"X","D","G","_","C","O","N","F","I","G","_","H","O","M","E">>, <<>>>> } }

ProviderEnvironments(pfx) ==
    { {<<Under(pfx, e[1]), e[2]>> : e \in fo} \cup pv :
        fo \in FieldOverrides, pv \in PathVariables(pfx) }

\* the paths a configuration file may lie at
CandidatePaths ==
    { <<"/","e","/","c",".","y","a","m","l">>, <<"/","e","/","c",".","t","x","t">>, <<"/","x","/","a","p","p","/","c","o","n","f","i","g",".","y","m","l">>, <<"/","h","/","a","p","p","/","c","o","n","f","i","g",".","y","m","l">> }

\* what a configuration file holds: text that does not parse, a name, a name
\* and a port
Contents ==
    { File(FALSE, <<>>),
      File(TRUE, << Found(<<"f","r","o","m","f","i","l","e">>), [ok |-> FALSE, val |-> 0] >>),
      File(TRUE, << Found(<<"f","r","o","m","f","i","l","e">>), Found(7) >>) }

\* the file systems: no file at all, or the same file at every candidate path,
\* with the directories above it
FileSystems ==
    { <<>> } \cup
    { [d \in UNION {Ancestors(Dir(p)) : p \in CandidatePaths} |-> Directory]
        @@ [p \in CandidatePaths |-> c] : c \in Contents }

Init ==
    /\ \E opts \in OptionSets :
         /\ m = New(opts)
         /\ prefix = IF "WithEnvPrefix" \in opts THEN APP ELSE <<>>
    /\ rootType = "mCfg"
    /\ environ \in ProviderEnvironments(prefix)
    /\ files \in FileSystems
    /\ heap = <<>>
    /\ root = 0
    /\ before = <<>>
    /\ calls = 0
    /\ naming = NoName
    /\ looked = <<>>
    /\ once = [done |-> FALSE, m |-> 0]
    /\ pc = [g \in Goroutines |-> "idle"]
    /\ ret = [g \in Goroutines |-> NoResult]
    /\ log = <<>>
    /\ out = <<>>
    /\ fcall = NoCall
    /\ ts = ThreadSafeBuffers
    /\ task = NoTasks

Next ==
    \E g \in Goroutines :
        \/ Call(g)
        \/ OnceLock(g)
        \/ DefaultFn(g)
        \/ ModelInit(g)
        \/ SetDefaultsStep(g)
        \/ ResolveConfigPath(g)
        \/ FileStep(g)
        \/ EnvStep(g)
        \/ ValidateStep(g)
        \/ OnceStore(g)
        \/ OnceUnlock(g)
        \/ Return(g)

Spec == Init /\ [][Next]_vars

-----------------------------------------------------------------------------
(* The file functions on their own *)

\* the paths given to writeToFile and loadFromFile
FilePaths ==
    { <<>>, <<"/","d","/","c",".","y","a","m","l">>, <<"/","d","/","c",".","y","m","l">>, <<"/","d","/","c",".","j","s","o","n">>, <<"/","d","/","c",".","t","x","t">>, <<"/","d","/","c">>, <<"/","n","/","c",".","y","a","m","l">> }

\* what is at the path before the call: nothing, a file or a directory
Occupants == Contents \cup { Directory }

\* the file systems: the directory /d, a temporary file an earlier run may have
\* left there, and the destination empty or taken
FileSystemsAt(path) ==
    LET base  == <<"/","d">> :> Directory
        stale == <<"/","d","/","t","e","m","p","-","c","o","n","f","i","g","-","1",".","y","a","m","l">> :> Partial
    IN  { base, stale @@ base }
        \cup (IF Dir(path) # <<"/","d">> THEN {}
              ELSE { (path :> o) @@ b : o \in Occupants, b \in { base, stale @@ base } })

\* the configurations handed over
Configs == { Zero(mCfg), << <<"a","l","i","c","e">>, 7 >> }

InitFiles ==
    /\ \E path \in FilePaths, fn \in {"writeToFile", "loadFromFile"} :
         /\ files \in FileSystemsAt(path)
         /\ \E cfg \in Configs : heap = <<cfg>>
         /\ fcall = [NoCall EXCEPT !.fn = fn, !.path = path, !.fs = files, !.heap = heap]
    /\ root = 1
    /\ rootType = "mCfg"
    /\ environ = {}
    /\ prefix = <<>>
    /\ before = heap
    /\ calls = 0
    /\ naming = NoName
    /\ looked = <<>>
    /\ m = New({})
    /\ once = [done |-> FALSE, m |-> 0]
    /\ pc = [g \in Goroutines |-> "idle"]
    /\ ret = [g \in Goroutines |-> NoResult]
    /\ log = <<>>
    /\ out = <<>>
    /\ ts = ThreadSafeBuffers
    /\ task = NoTasks

\* writeToFile(path, cfg)
WriteToFile ==
    /\ fcall.fn = "writeToFile" /\ ~fcall.done
    /\ \E outcome \in WriteOutcomes :
         LET r == writeToFile(files, fcall.path, heap[root], outcome)
         IN /\ files' = r.fs
            /\ fcall' = [fcall EXCEPT !.done = TRUE, !.err = r.err]
    /\ UNCHANGED <<engineVars, m, once, pc, ret, log, out, streamVars>>

\* loadFromFile(path, cfg)
LoadFromFile ==
    /\ fcall.fn = "loadFromFile" /\ ~fcall.done
    /\ LET r == loadFromFile(files, fcall.path, heap, root)
       IN /\ heap' = r.heap
          /\ fcall' = [fcall EXCEPT !.done = TRUE, !.err = r.err]
    /\ UNCHANGED <<environ, root, rootType, prefix, before, calls, naming, looked,
                   m, once, files, pc, ret, log, out, streamVars>>

NextFiles == WriteToFile \/ LoadFromFile

SpecFiles == InitFiles /\ [][NextFiles]_vars

-----------------------------------------------------------------------------
(* ThreadSafeBuffersStreams: Write, Strings and Reset, step by step *)

\* the mutex of a tsBuf that does not exclude
Unlocked_Always(t) == TRUE

\* t.mu.Lock() can return: nobody holds the mutex
Unlocked(t) == t.mu = 0

\* ts.Out().Write(p) or ts.ErrOut().Write(p) is called
CallWrite(g) ==
    /\ g \in Writers
    /\ task[g].pc = "idle"
    /\ \E buf \in {Out, ErrOut} :
         task' = [task EXCEPT ![g] = [@ EXCEPT !.fn = "Write", !.buf = buf, !.pc = "lock"]]
    /\ UNCHANGED <<engineVars, providerVars, ts>>

\* ts.Strings() is called: b.OutBuf.String() comes first
CallStrings(g) ==
    /\ g = Reader
    /\ task[g].pc = "idle"
    /\ task' = [task EXCEPT ![g] = [@ EXCEPT !.fn = "Strings", !.buf = Out, !.pc = "lock",
                                             !.after = task[Resetter].pc = "done"]]
    /\ UNCHANGED <<engineVars, providerVars, ts>>

\* ts.Reset() is called: b.OutBuf.Reset() comes first
CallReset(g) ==
    /\ g = Resetter
    /\ task[g].pc = "idle"
    /\ task' = [task EXCEPT ![g] = [@ EXCEPT !.fn = "Reset", !.buf = Out, !.pc = "lock"]]
    /\ UNCHANGED <<engineVars, providerVars, ts>>

\* t.mu.Lock()
Lock(g) ==
    /\ task[g].pc = "lock"
    /\ Unlocked(ts[task[g].buf])
    /\ ts' = [ts EXCEPT ![task[g].buf].mu = g]
    /\ task' = [task EXCEPT ![g].pc = "locked"]
    /\ UNCHANGED <<engineVars, providerVars>>

\* t.b.Write(p): the next byte of p is copied to the end of the buffer
Copy(g) ==
    /\ task[g].fn = "Write"
    /\ task[g].pc = "locked"
    /\ ts' = [ts EXCEPT ![task[g].buf].b = Append(@, Chunk(g)[task[g].n + 1])]
    /\ task' = [task EXCEPT ![g] = [@ EXCEPT !.n = @ + 1,
                                             !.pc = IF task[g].n + 1 = ChunkLen
                                                    THEN "unlock" ELSE "locked"]]
    /\ UNCHANGED <<engineVars, providerVars>>

\* t.b.String()
String(g) ==
    /\ task[g].fn = "Strings"
    /\ task[g].pc = "locked"
    /\ task' = [task EXCEPT ![g] =
                  IF task[g].buf = Out
                  THEN [@ EXCEPT !.out = ts[Out].b, !.pc = "unlock"]
                  ELSE [@ EXCEPT !.err = ts[ErrOut].b, !.pc = "unlock"]]
    /\ UNCHANGED <<engineVars, providerVars, ts>>

\* t.b.Reset()
Reset(g) ==
    /\ task[g].fn = "Reset"
    /\ task[g].pc = "locked"
    /\ ts' = [ts EXCEPT ![task[g].buf].b = <<>>]
    /\ task' = [task EXCEPT ![g].pc = "unlock"]
    /\ UNCHANGED <<engineVars, providerVars>>

\* the deferred t.mu.Unlock(). A Write returns; Strings and Reset go on to
\* ErrBuf after OutBuf and return after ErrBuf
Unlock(g) ==
    /\ task[g].pc = "unlock"
    /\ ts' = [ts EXCEPT ![task[g].buf].mu = 0]
    /\ task' = [task EXCEPT ![g] =
                  IF task[g].fn = "Write"
                  THEN [@ EXCEPT !.pc = "done", !.early = task[Resetter].pc = "idle"]
                  ELSE IF task[g].buf = Out
                  THEN [@ EXCEPT !.buf = ErrOut, !.pc = "lock"]
                  ELSE [@ EXCEPT !.pc = "done"]]
    /\ UNCHANGED <<engineVars, providerVars>>

InitStreams ==
    /\ ts = ThreadSafeBuffers
    /\ task = NoTasks
    /\ heap = <<Zero(mCfg)>>
    /\ root = 1
    /\ rootType = "mCfg"
    /\ environ = {}
    /\ prefix = <<>>
    /\ before = heap
    /\ calls = 0
    /\ naming = NoName
    /\ looked = <<>>
    /\ m = New({})
    /\ once = [done |-> FALSE, m |-> 0]
    /\ files = <<>>
    /\ pc = [g \in Goroutines |-> "idle"]
    /\ ret = [g \in Goroutines |-> NoResult]
    /\ log = <<>>
    /\ out = <<>>
    /\ fcall = NoCall

NextStreams ==
    \E g \in Tasks :
        \/ CallWrite(g)
        \/ CallStrings(g)
        \/ CallReset(g)
        \/ Lock(g)
        \/ Copy(g)
        \/ String(g)
        \/ Reset(g)
        \/ Unlock(g)

SpecStreams == InitStreams /\ [][NextStreams]_vars

-----------------------------------------------------------------------------
(* The fields of a target, for stating what a call did to them *)

\* the exported fields of the struct v and of the structs below it in the heap h:
\* each with its location, its segment path and whether the env tag skips it.
\* Nothing below a skipped field is listed.
RECURSIVE Fields(_, _, _)
Fields(h, v, segs) ==
    UNION { LET sf  == v.type.fields[i]
                f   == Field(v, i)
                own == Append(segs, segmentOf(sf))
                me  == [v |-> f, segs |-> own, skip |-> sf.tag = <<"-">>]
            IN IF sf.PkgPath # "" THEN {}
               ELSE IF me.skip THEN {me}
               ELSE IF f.type.kind = "struct" THEN {me} \cup Fields(h, f, own)
               ELSE IF f.type.kind = "ptr" /\ f.type.elem.kind = "struct" /\ Load(h, f) # 0
                    THEN {me} \cup Fields(h, Elem(h, f), own)
               ELSE {me}
          : i \in 1..Len(v.type.fields) }

\* the fields of the target as the last call left it
FieldsNow ==
    IF root = 0 \/ TypeNamed(rootType).kind # "struct" THEN {}
    ELSE Fields(heap, Value(root, <<>>, TypeNamed(rootType), TRUE), <<>>)

\* what the field held when the last call started: a cell the call allocated
\* held the zero value of its type
Before(f) ==
    IF f.v.cell <= Len(before) THEN Load(before, f.v) ELSE Zero(f.v.type)

Now(f) == Load(heap, f.v)

\* the name of the variable that governs the field
NameOf(f) == buildEnvName(prefix, f.segs)

IsSet(name) == \E e \in environ : e[1] = name

ValueOf(name) == (CHOOSE e \in environ : e[1] = name)[2]

\* what a variable's text means for a scalar type: [ok, val], val converted to
\* the type's width
Meaning(t, text) ==
    CASE t.kind = "string" -> Found(text)
      [] t.kind = "bool"   -> ParseBool(TrimSpace(text))
      [] t.kind = "int"    ->
            LET r == IF t.duration THEN ParseDuration(TrimSpace(text))
                     ELSE ParseInt(TrimSpace(text))
            IN IF r.ok THEN Found(ToSigned(r.val, t.bits)) ELSE Fail
      [] t.kind = "uint"   ->
            LET r == ParseInt(TrimSpace(text))
            IN IF r.ok /\ r.val >= 0 THEN Found(ToUnsigned(r.val, t.bits)) ELSE Fail

\* the field's variable is set and its text decodes for the type t
Decodes(f, t) == IsSet(NameOf(f)) /\ Meaning(t, ValueOf(NameOf(f))).ok

IsPtrTo(f, kinds) == f.v.type.kind = "ptr" /\ f.v.type.elem.kind \in kinds

-----------------------------------------------------------------------------
(* Claims about the engine *)

\* C1: a pointer-to-struct field that is exported, not skipped and nil before
\* applyEnv is non-nil after it if and only if some variable's name starts with
\* buildEnvName(prefix, segments+seg) + "_".
C1_AllocatedIffNamePrefix ==
    calls >= 1 =>
        \A f \in FieldsNow :
            (IsPtrTo(f, {"struct"}) /\ ~f.skip /\ Before(f) = 0) =>
                (Now(f) # 0 <=> \E e \in environ : HasPrefix(e[1], NameOf(f) \o <<"_">>))

\* C2: a pointer-to-scalar field that is nil before applyEnv is allocated and
\* holds the decoded value if and only if the variable with its exact name is
\* set and decodes for its kind; otherwise it stays nil.
C2_PtrScalarIffDecodes ==
    calls >= 1 =>
        \A f \in FieldsNow :
            (IsPtrTo(f, ScalarKinds) /\ ~f.skip /\ Before(f) = 0) =>
                IF Decodes(f, f.v.type.elem)
                THEN /\ Now(f) # 0
                     /\ heap[Now(f)] = Meaning(f.v.type.elem, ValueOf(NameOf(f))).val
                ELSE Now(f) = 0

\* C2 happens: one nil pointer was allocated from its variable while another,
\* whose variable is set but malformed, stayed nil
C2_Witness ==
    /\ calls >= 1
    /\ \E f, g \in FieldsNow :
         /\ IsPtrTo(f, ScalarKinds) /\ Before(f) = 0 /\ Now(f) # 0
         /\ IsPtrTo(g, ScalarKinds) /\ Before(g) = 0 /\ Now(g) = 0
         /\ IsSet(NameOf(g))

\* C3: a field whose env tag is "-" holds after applyEnv what it held before,
\* and what a skipped pointer points to is not touched either.
C3_SkippedUnchanged ==
    calls >= 1 =>
        \A f \in FieldsNow :
            f.skip => /\ Now(f) = Before(f)
                      /\ (f.v.type.kind = "ptr" /\ Now(f) # 0) => heap[Now(f)] = before[Now(f)]

\* C3 happens: a skipped field lies in a struct the call allocated because of the
\* variable that bears the skipped field's derived name
C3_Witness ==
    /\ calls >= 1
    /\ \E f \in FieldsNow :
         /\ f.skip
         /\ f.v.cell > Len(before)
         /\ \E e \in environ :
              e[1] = buildEnvName(prefix, SubSeq(f.segs, 1, Len(f.segs) - 1) \o <<<<"S","K","I","P">>>>)

\* C4: a variable whose text does not decode for the field's kind (malformed, or
\* negative for an unsigned field) leaves the field as it was before applyEnv.
C4_AnomalyLeavesField ==
    calls >= 1 =>
        \A f \in FieldsNow :
            /\ (f.v.type.kind \in ScalarKinds /\ ~f.skip /\ IsSet(NameOf(f))
                  /\ ~Decodes(f, f.v.type))
               => Now(f) = Before(f)
            /\ (IsPtrTo(f, ScalarKinds) /\ ~f.skip /\ IsSet(NameOf(f))
                  /\ ~Decodes(f, f.v.type.elem))
               => /\ Now(f) = Before(f)
                  /\ Now(f) # 0 => heap[Now(f)] = before[Now(f)]

\* C4 happens: an unsigned field that held a value met a negative number and an
\* allocated pointer met a malformed text
C4_Witness ==
    /\ calls >= 1
    /\ \E f \in FieldsNow :
         /\ f.v.type.kind = "uint" /\ Before(f) # 0 /\ IsSet(NameOf(f))
         /\ ParseInt(ValueOf(NameOf(f))).ok /\ ParseInt(ValueOf(NameOf(f))).val < 0
    /\ \E g \in FieldsNow :
         /\ IsPtrTo(g, ScalarKinds) /\ Before(g) # 0 /\ IsSet(NameOf(g))
         /\ ~Decodes(g, g.v.type.elem)

\* C17: running applyEnv a second time with the environment unchanged leaves
\* the target exactly as the first run left it: no field value changes, no
\* further allocation happens and no pointer is replaced.
C17_Idempotent ==
    calls >= 2 =>
        /\ Len(heap) = Len(before)
        /\ \A c \in 1..Len(heap) : heap[c] = before[c]

\* C17 happens: the first run wrote into the zero target and allocated two of
\* its pointers, and a second run followed
C17_Witness ==
    /\ calls = 2
    /\ root # 0
    /\ Len(heap) = 3
    /\ heap[root] # Zero(TypeNamed(rootType))

\* the fields of the target as they were when the last call started
FieldsBefore ==
    IF root = 0 \/ TypeNamed(rootType).kind # "struct" THEN {}
    ELSE Fields(before, Value(root, <<>>, TypeNamed(rootType), TRUE), <<>>)

\* the pointer fields that were allocated when the last call started
AllocatedBefore == { f \in FieldsBefore : f.v.type.kind = "ptr" /\ Load(before, f.v) # 0 }

\* C18: applyEnv never sets a pointer field to nil and never replaces a pointer
\* that was non-nil before the call; values are written into the existing
\* pointee; this holds also when decoding fails for the field or for a sibling.
C18_PointersKept ==
    calls >= 1 =>
        \A f \in AllocatedBefore :
            /\ Now(f) = Load(before, f.v)
            /\ (IsPtrTo(f, ScalarKinds) /\ ~f.skip /\ Decodes(f, f.v.type.elem))
                  => heap[Load(before, f.v)] = Meaning(f.v.type.elem, ValueOf(NameOf(f))).val

\* C18 happens: one allocated pointer met a text that does not decode while the
\* pointee of another was written, and a struct that was allocated was entered
C18_Witness ==
    /\ calls >= 1
    /\ \E f, g \in AllocatedBefore :
         /\ IsPtrTo(g, ScalarKinds) /\ IsSet(NameOf(g)) /\ ~Decodes(g, g.v.type.elem)
         /\ heap[Now(f)] # before[Now(f)]
    /\ \E f, g \in AllocatedBefore :
         /\ IsPtrTo(g, ScalarKinds) /\ IsSet(NameOf(g)) /\ ~Decodes(g, g.v.type.elem)
         /\ IsPtrTo(f, {"struct"}) /\ probe(prefix, f.segs)

\* the value given to the engine is a nil pointer, or is or points to something
\* that is not a structure
NoStructGiven ==
    LET t == TypeNamed(rootType) IN
    \/ root = 0
    \/ t.kind \notin {"struct", "ptr"}
    \/ t.kind = "ptr" /\ (before[root] = 0 \/ t.elem.kind # "struct")

\* C19: when the value given to the engine is a nil pointer, or is (or points
\* to) something that is not a structure, applyEnv and Provider.loadFromEnv
\* change nothing, for every environment.
C19_NoStructNoOp ==
    (calls >= 1 /\ NoStructGiven) => heap = before

\* C19 happens: loadFromEnv(nil) was called with variables set
C19_Witness ==
    /\ calls >= 1
    /\ root = 0
    /\ environ # {}

\* the text fields the engine looks at
TextFields == { f \in FieldsNow : ~f.skip /\ f.v.type.kind = "string" }

\* its *string fields
TextPointers == { f \in FieldsNow : ~f.skip /\ IsPtrTo(f, {"string"}) }

\* C20: a text field is overridden whenever its variable is set, whatever the
\* value: a variable set to the empty string overwrites a non-empty prior value
\* with "" (and allocates a nil *string pointing to ""); only a variable that is
\* not set at all leaves the field unchanged.
C20_TextOverridden ==
    calls >= 1 =>
        /\ \A f \in TextFields :
              IF IsSet(NameOf(f)) THEN Now(f) = ValueOf(NameOf(f)) ELSE Now(f) = Before(f)
        /\ \A f \in TextPointers :
              IF IsSet(NameOf(f))
              THEN Now(f) # 0 /\ heap[Now(f)] = ValueOf(NameOf(f))
              ELSE Now(f) = Before(f) /\ (Now(f) # 0 => heap[Now(f)] = before[Now(f)])

\* C20 happens: a text field that held a text and a nil *string met variables
\* set to the empty string
C20_Witness ==
    /\ calls >= 1
    /\ \E f \in TextFields :
         Before(f) # <<>> /\ IsSet(NameOf(f)) /\ ValueOf(NameOf(f)) = <<>> /\ Now(f) = <<>>
    /\ \E f \in TextPointers :
         /\ Before(f) = 0 /\ IsSet(NameOf(f)) /\ ValueOf(NameOf(f)) = <<>>
         /\ Now(f) # 0 /\ heap[Now(f)] = <<>>

\* some variable's name starts with the base prefix of the field
NameUnder(f) == \E e \in environ : HasPrefix(e[1], NameOf(f) \o <<"_">>)

\* the call changed the field, or what a pointer to a scalar points to
Changed(f) ==
    \/ Now(f) # Before(f)
    \/ /\ f.v.type.kind = "ptr" /\ f.v.type.elem.kind # "struct"
       /\ Now(f) # 0 /\ Now(f) <= Len(before)
       /\ heap[Now(f)] # before[Now(f)]

\* the unexported fields of the target
Unexported ==
    LET t == TypeNamed(rootType) IN
    IF root = 0 \/ t.kind # "struct" THEN {}
    ELSE { i \in 1..Len(t.fields) : t.fields[i].PkgPath # "" }

\* no variable bears the resolved name of a field or lies under the base prefix
\* of a pointer to a struct
NoMatch ==
    \A f \in FieldsBefore :
        ~f.skip => /\ ~IsSet(NameOf(f))
                   /\ IsPtrTo(f, {"struct"}) => ~NameUnder(f)

\* C21: applyEnv changes a field only if a variable with the field's resolved
\* name is present (or, for a pointer-to-struct, a variable with its base prefix
\* exists): unexported fields and fields of unsupported kinds are never
\* modified, and when no variable matches any resolved name or base prefix the
\* whole target is unchanged.
C21_ChangesOnlyNamed ==
    calls >= 1 =>
        /\ \A f \in FieldsNow :
              (f.v.type.kind # "struct" /\ Changed(f)) =>
                  /\ ~f.skip
                  /\ \/ f.v.type.kind \in ScalarKinds /\ IsSet(NameOf(f))
                     \/ IsPtrTo(f, ScalarKinds) /\ IsSet(NameOf(f))
                     \/ IsPtrTo(f, {"struct"}) /\ NameUnder(f)
        /\ \A i \in Unexported : heap[root][i] = before[root][i]
        /\ NoMatch => heap = before

\* the first k of the segments, each after the first preceded by "_"
RECURSIVE JoinedUpTo(_, _)
JoinedUpTo(S, k) ==
    IF k = 0 THEN <<>>
    ELSE IF k = 1 THEN S[1]
    ELSE JoinedUpTo(S, k - 1) \o <<"_">> \o S[k]

Joined(S) == JoinedUpTo(S, Len(S))

\* the type of the field at the path, pointers followed
RECURSIVE TypeAt(_, _)
TypeAt(t, path) ==
    IF path = <<>> THEN t
    ELSE LET ft == t.fields[Head(path)].Type
         IN TypeAt(IF ft.kind = "ptr" /\ Tail(path) # <<>> THEN ft.elem ELSE ft, Tail(path))

\* the segments of the fields on the path, from the root to the leaf
RECURSIVE SegmentsAlong(_, _)
SegmentsAlong(t, path) ==
    IF path = <<>> THEN <<>>
    ELSE LET sf == t.fields[Head(path)]
             ft == IF sf.Type.kind = "ptr" THEN sf.Type.elem ELSE sf.Type
         IN <<segmentOf(sf)>> \o SegmentsAlong(ft, Tail(path))

\* the struct type applyEnv walks: T, or what T points to
WalkedType ==
    LET t == TypeNamed(rootType) IN IF t.kind = "ptr" THEN t.elem ELSE t

\* the prefix, the ancestors' segments and the own segment, joined by "_"
NameAlong(path) == Under(prefix, Joined(SegmentsAlong(WalkedType, path)))

\* C22: at every nesting depth, the name looked up for a field is the prefix
\* followed by the segments of its ancestors in root-to-leaf order and then its
\* own segment; the segment path a call works with is never altered by the
\* processing of a sibling field or of a sibling's subtree, although append can
\* write into a backing array that is shared.
C22_NamesFollowPath ==
    /\ \A k \in 1..Len(looked) :
          LET l == looked[k] IN
          IF IsPtrTo([v |-> [type |-> TypeAt(WalkedType, l.path)]], {"struct"})
          THEN l.name = NameAlong(l.path) \o <<"_">>
          ELSE l.name = NameAlong(l.path)
    /\ calls >= 1 =>
          \A f \in FieldsNow :
              (~f.skip /\ (f.v.type.kind \in ScalarKinds \/ IsPtrTo(f, ScalarKinds))
                  /\ IsSet(NameOf(f)))
                 => \E k \in 1..Len(looked) : looked[k].name = NameOf(f)

\* C22 happens: at depth four the names of X, of the struct D, of the entered
\* pointer P and then of Y were all built in the one backing array
C22_Witness ==
    /\ calls >= 1
    /\ rootType = "deepCfg"
    /\ \E i, j, k \in 1..Len(looked) :
         /\ i < j /\ j < k
         /\ looked[i].path = <<1, 1, 1, 2, 1>>
         /\ looked[j].path = <<1, 1, 1, 3, 1>>
         /\ looked[k].path = <<1, 1, 1, 4>> /\ looked[k].inPlace
         /\ looked[k].name = <<"A","P","P","_","A","_","B","_","C","_","Y">>

\* the narrow integer fields, and pointers to them, that the engine looks at
NarrowFields ==
    { f \in FieldsNow :
        /\ ~f.skip
        /\ LET t == IF f.v.type.kind = "ptr" THEN f.v.type.elem ELSE f.v.type
           IN t.kind \in {"int", "uint"} /\ t.bits < 64 }

\* the integer type of a narrow field
NarrowType(f) == IF f.v.type.kind = "ptr" THEN f.v.type.elem ELSE f.v.type

\* the integer a narrow field holds
NarrowValue(f) == IF f.v.type.kind = "ptr" THEN heap[Now(f)] ELSE Now(f)

\* the 64-bit value the field's variable decodes to
Decoded(f) == ParseInt(TrimSpace(ValueOf(NameOf(f))))

\* x and v differ by a multiple of 2^w
SameModulo(x, v, w) == \E q \in -4..4 : x = v + q * Pow2(w)

\* the range of the type
InRange(x, t) ==
    IF t.kind = "int" THEN x >= 0 - Pow2(t.bits - 1) /\ x < Pow2(t.bits - 1)
    ELSE x >= 0 /\ x < Pow2(t.bits)

\* C23: no range check is made against the field's width: a signed field of
\* width w whose variable decodes to a value v outside the w-bit range is
\* assigned v truncated to w bits (v modulo 2^w, two's complement), and an
\* unsigned field given v >= 2^w is assigned v modulo 2^w; the field is
\* neither left unchanged nor is an error raised.
C23_Truncated ==
    calls >= 1 =>
        \A f \in NarrowFields :
            (/\ IsSet(NameOf(f)) /\ Decoded(f).ok
             /\ NarrowType(f).kind = "uint" => Decoded(f).val >= 0)
            => /\ f.v.type.kind = "ptr" => Now(f) # 0
               /\ InRange(NarrowValue(f), NarrowType(f))
               /\ SameModulo(NarrowValue(f), Decoded(f).val, NarrowType(f).bits)

\* C23 happens: an int8 and a uint8 field that held 5 and 6 were given 300 and
\* hold 44
C23_Witness ==
    /\ calls >= 1
    /\ \E f, g \in NarrowFields :
         /\ f.v.type.kind = "int" /\ g.v.type.kind = "uint"
         /\ IsSet(NameOf(f)) /\ Decoded(f).val = 300
         /\ IsSet(NameOf(g)) /\ Decoded(g).val = 300
         /\ Before(f) = 5 /\ Before(g) = 6
         /\ Now(f) = 44 /\ Now(g) = 44

\* the most fields of a struct whose every order is tried
MaxPermuted == 5

\* the orders of n fields: every one for a small struct, the reverse for others
Orders(n) ==
    IF n <= MaxPermuted
    THEN { o \in [1..n -> 1..n] : \A i, j \in 1..n : o[i] = o[j] => i = j }
    ELSE { [i \in 1..n |-> n + 1 - i] }

\* a value of type t with every pointer replaced by what it points to
RECURSIVE Content(_, _, _)
Content(h, t, x) ==
    CASE t.kind = "struct" -> [i \in 1..Len(t.fields) |-> Content(h, t.fields[i].Type, x[i])]
      [] t.kind = "ptr"    -> IF x = 0 THEN <<"nil">> ELSE <<"to", Content(h, t.elem, h[x])>>
      [] OTHER             -> x

\* the target a heap holds
Target(h) == Content(h, TypeNamed(rootType), h[root])

\* the heap applyEnv leaves when it takes the fields of the target in the order
Reordered(order) ==
    applyOrdered(before, Value(root, <<>>, TypeNamed(rootType), TRUE), prefix, <<>>, order, 1)

\* C24: for a fixed environment the target after applyEnv is the same for every
\* order in which the fields of a structure are processed, also when two fields
\* resolve to the same name or a scalar's name falls under the base prefix of a
\* pointer to a struct.
C24_OrderIndependent ==
    (calls >= 1 /\ root # 0 /\ TypeNamed(rootType).kind = "struct") =>
        \A order \in Orders(Len(TypeNamed(rootType).fields)) :
            Target(Reordered(order)) = Target(heap)

\* C24 happens: the one variable N was written to two fields and a pointer, and
\* P_W to a scalar and below the pointer P it caused to be allocated
C24_Witness ==
    /\ calls >= 1
    /\ rootType = "orderCfg"
    /\ before[root][3] = 0
    /\ Target(heap) = << <<"7">>, 7, <<"to", << <<"w">> >> >>, <<"w">>, <<"to", 7>> >>

-----------------------------------------------------------------------------
(* Claims about Provider.Get *)

\* how often a step was run
Count(step) == Cardinality({i \in 1..Len(log) : log[i] = step})

Ran(step) == Count(step) >= 1

\* the goroutines whose Get has returned at least once
Returned == {g \in Goroutines : ret[g] # NoResult}

\* the labels at which a goroutine is inside the function given to Once.Do
InitSteps ==
    {"defaultFn", "modelInit", "SetDefaults", "resolveConfigPath", "loadFromFile",
     "loadFromEnv", "Validate", "store"}

\* C5: under every interleaving of concurrent and repeated Get calls the default
\* factory, the model constructor, the write of the config file and applyEnv each
\* run at most once for one Provider.
C5_InitRunsAtMostOnce ==
    /\ \A step \in {"defaultFn", "modelInit", "writeToFile", "loadFromEnv"} : Count(step) <= 1
    /\ calls <= 1
    /\ Cardinality({g \in Goroutines : pc[g] \in InitSteps}) <= 1

\* C5 happens: the four steps ran, one caller has its result, and another, which
\* called while the initialisation was running, still waits for the mutex
C5_Witness ==
    /\ \A step \in {"defaultFn", "modelInit", "writeToFile", "loadFromEnv"} : Ran(step)
    /\ \E g, h \in Goroutines : g # h /\ g \in Returned /\ pc[h] = "lock"

\* C6: a Get that has returned did so after the initialisation finished; all
\* results, concurrent or later, are equal in pointer, path and fileCreated; and
\* what a caller read through the pointer is what the object holds for good.
C6_SameResultAfterInit ==
    \A g \in Returned :
        /\ once.done
        /\ \A h \in Goroutines : pc[h] \notin InitSteps
        /\ \A h \in Returned : ret[h] = ret[g]
        /\ ret[g].err = nil =>
              /\ ret[g].cfg = root /\ root # 0
              /\ ret[g].seen = heap[root]
              /\ ret[g].path = m.configPath
              /\ ret[g].fileCreated = m.fileCreated

\* C6 happens: two callers hold the same pointer to an object that the
\* environment step changed after the file was loaded, one of them calling again
C6_Witness ==
    \E g, h \in Returned :
        /\ g # h
        /\ ret[g].err = nil /\ ret[h].err = nil
        /\ pc[g] = "after" /\ pc[h] = "returned"
        /\ Ran("loadFromEnv") /\ heap[root] # before[root]
        /\ m.configPath # <<>> /\ ~m.fileCreated

\* what the file at the resolved path sets field i to: [ok, val]
FromFile(i) ==
    IF /\ m.configPath # <<>>
       /\ Exists(files, m.configPath)
       /\ files[m.configPath].parses
       /\ files[m.configPath].fields[i].ok
    THEN Found(files[m.configPath].fields[i].val)
    ELSE [ok |-> FALSE, val |-> <<>>]

\* the default of field i: the factory's value, after the model's defaults
Default(i) ==
    IF m.modelInit THEN SetDefaults(defaultFn(m.defaultFn))[i] ELSE defaultFn(m.defaultFn)[i]

\* C7: in the object a successful Get returns, a field holds the decoded value of
\* its variable when that is set and decodes, else the value of the config file
\* when the file sets the field, else the default.
C7_Precedence ==
    \A g \in Returned :
        ret[g].err = nil =>
            \A f \in FieldsNow :
                LET i == f.v.path[1]
                IN ret[g].seen[i] =
                      IF Decodes(f, f.v.type) THEN Meaning(f.v.type, ValueOf(NameOf(f))).val
                      ELSE IF FromFile(i).ok THEN FromFile(i).val
                      ELSE Default(i)

\* C7 happens: the factory named the object, the file renamed it and set its
\* port, the environment renamed it again and offered a malformed port
C7_Witness ==
    \E g \in Returned :
        /\ ret[g].err = nil
        /\ m.defaultFn = "defFn"
        /\ ~Ran("writeToFile")
        /\ FromFile(1).ok /\ FromFile(1).val # Default(1)
        /\ FromFile(2).ok /\ FromFile(2).val # Default(2)
        /\ \A f \in FieldsNow : IsSet(NameOf(f))
        /\ ret[g].seen[1] # FromFile(1).val
        /\ ret[g].seen[2] = FromFile(2).val
\* the place of a step in the order of the initialisation
Rank(step) ==
    CASE step = "defaultFn"         -> 1
      [] step = "modelInit"         -> 2
      [] step = "SetDefaults"       -> 3
      [] step = "resolveConfigPath" -> 4
      [] step = "loadFromFile"      -> 5
      [] step = "EnsurePath"        -> 6
      [] step = "writeToFile"       -> 7
      [] step = "loadFromEnv"       -> 8
      [] step = "Validate"          -> 9

\* C8: the steps of the initialisation run in the order default factory, model
\* construction and SetDefaults (with a model), path resolution, file load or
\* creation, environment overrides, Validate (with a model): no step runs before
\* the ones it follows, none is left out of a run that got past it.
C8_StepOrder ==
    /\ \A i, j \in 1..Len(log) : i < j => Rank(log[i]) < Rank(log[j])
    /\ log # <<>> => log[1] = "defaultFn"
    /\ \A step \in {"modelInit", "SetDefaults", "Validate"} : Ran(step) => m.modelInit
    /\ Ran("SetDefaults") => Ran("modelInit")
    /\ Ran("resolveConfigPath") /\ m.modelInit => Ran("SetDefaults")
    /\ Ran("loadFromFile") => Ran("resolveConfigPath")
    /\ Ran("writeToFile") => Ran("EnsurePath")
    /\ Ran("EnsurePath") => Ran("loadFromFile")
    /\ Ran("loadFromEnv") => Ran("loadFromFile")
    /\ Ran("Validate") => Ran("loadFromEnv")
    /\ once.done /\ m.initErr = nil => Ran("loadFromEnv") /\ (m.modelInit => Ran("Validate"))

\* C8 happens: an initialisation with a model that created the file ran all steps
C8_Witness ==
    /\ once.done
    /\ m.initErr = nil
    /\ log = << "defaultFn", "modelInit", "SetDefaults", "resolveConfigPath", "loadFromFile",
                "EnsurePath", "writeToFile", "loadFromEnv", "Validate" >>

Unparsable ==
    /\ m.configPath # <<>>
    /\ Ext(m.configPath) \in SupportedExts
    /\ Exists(files, m.configPath)
    /\ ~files[m.configPath].dir
    /\ ~files[m.configPath].parses

\* C10: when the file at the resolved path exists and does not parse, the error
\* Get returns matches ErrParse, whatever the options, a model included.
C10_UnparsableGivesErrParse ==
    \A g \in Returned : Unparsable => "ErrParse" \in ret[g].err
\* the rules of mCfg: Name nonempty, Port positive and nonzero
ValidName(v) == v # <<>>

ValidPort(v) == v > 0

\* the variable of field f is set and decodes to a value the rules reject
InvalidOverride(f) ==
    /\ Decodes(f, f.v.type)
    /\ LET v == Meaning(f.v.type, ValueOf(NameOf(f))).val
       IN IF f.v.path = <<1>> THEN ~ValidName(v) ELSE ~ValidPort(v)

\* C11: with a model, Validate judges the object as the file and the environment
\* left it; when it fails Get returns the validation error and a nil config, so
\* a variable that makes a field invalid makes Get fail.
C11_ValidateAfterOverrides ==
    \A g \in Returned :
        /\ Ran("Validate") =>
              /\ log[Len(log)] = "Validate" /\ Ran("loadFromEnv")
              /\ "*model.ValidationError" \in ret[g].err
                    <=> ~(ValidName(heap[root][1]) /\ ValidPort(heap[root][2]))
        /\ "*model.ValidationError" \in ret[g].err => ret[g].cfg = 0 /\ Ran("Validate")
        /\ m.modelInit /\ ret[g].err = nil =>
              Ran("Validate") /\ ValidName(ret[g].seen[1]) /\ ValidPort(ret[g].seen[2])
        /\ m.modelInit /\ (\E f \in FieldsNow : InvalidOverride(f)) => ret[g].err # nil

\* C11 happens: the file was loaded and left the object valid, then NAME="" and
\* PORT=0 made it invalid and Get returned the validation error
C11_Witness ==
    \E g \in Returned :
        /\ "*model.ValidationError" \in ret[g].err
        /\ FromFile(1).ok /\ ~Ran("writeToFile")
        /\ ValidName(before[root][1]) /\ ValidPort(before[root][2])
        /\ \A f \in FieldsNow : InvalidOverride(f)
\* the variable that overrides the path, and the one that names the user's
\* configuration directory
ConfigPathVar == prefix \o <<"_","C","O","N","F","I","G","_","P","A","T","H">>

XdgVar == <<"X","D","G","_","C","O","N","F","I","G","_","H","O","M","E">>

\* the path resolution found no user configuration directory
NoUserConfigDir == "UserConfigDir" \in m.initErr

\* the path the claim names, a variable counting as set when set(name) holds
ClaimedPath(set(_)) ==
    IF prefix # <<>> /\ set(ConfigPathVar) THEN ValueOf(ConfigPathVar)
    ELSE IF m.persist
    THEN filepathJoin(<< IF set(XdgVar) THEN ValueOf(XdgVar) ELSE <<"/","h">>,
                         <<"a","p","p">>, configFileName >>)
    ELSE <<>>

SetNonEmpty(name) == IsSet(name) /\ ValueOf(name) # <<>>

\* what the claim says of a resolved path, for one reading of "set"
PathAsClaimed(set(_)) ==
    Ran("resolveConfigPath") /\ ~NoUserConfigDir =>
        /\ m.configPath = ClaimedPath(set)
        /\ \A g \in Returned : ret[g].err = nil => ret[g].path = ClaimedPath(set)
        /\ m.configPath = <<>> /\ Ran("loadFromEnv") =>
              /\ ~Ran("EnsurePath") /\ ~Ran("writeToFile") /\ ~m.fileCreated
              /\ \A i \in 1..Len(before[root]) : before[root][i] = Default(i)

\* C12 as stated: the resolved path is the value of PREFIX_CONFIG_PATH when a
\* prefix is configured and the variable is set; else, with persistence, the
\* join of the user configuration directory (XDG_CONFIG_HOME when set, else the
\* platform's), the directory name and config.yml; else empty, and then no file
\* is read or written.
C12_PathAsStated == PathAsClaimed(IsSet)

\* C12 amended: the same, a variable counting as set only when its value is
\* not empty.
C12_PathResolved == PathAsClaimed(SetNonEmpty)

\* C12 happens: with persistence enabled the path came from PREFIX_CONFIG_PATH
\* and Get returned it
C12_Witness ==
    /\ m.persist
    /\ SetNonEmpty(ConfigPathVar)
    /\ \E g \in Returned : ret[g].err = nil /\ ret[g].path = ValueOf(ConfigPathVar)
\* a path was resolved that may name a configuration file
ResolvedPath == m.configPath # <<>> /\ Ext(m.configPath) \in SupportedExts

\* the file at the resolved path was there before Get and parses
FoundFile ==
    Exists(files, m.configPath) /\ files[m.configPath].parses /\ ~Ran("writeToFile")

\* the file at the resolved path was not there before Get
MissingFile == ~Exists(files, m.configPath) \/ Ran("writeToFile")

\* the operating system refused the directories or the file
CreationRefused == {"ErrEnsureConfigDir", "ErrWrite"} \cap m.initErr # {}

\* the three cases of C13 for the result of goroutine g, created(g) telling what
\* is asked of the result of a Get that found the file missing
PersistenceCases(created(_)) ==
    \A g \in Returned :
        ResolvedPath =>
            /\ m.persist /\ FoundFile =>
                  /\ ~ret[g].fileCreated /\ ~m.fileCreated
                  /\ Ran("loadFromEnv") =>
                        \A i \in 1..Len(before[root]) :
                            before[root][i] = IF FromFile(i).ok THEN FromFile(i).val ELSE Default(i)
            /\ m.persist /\ MissingFile /\ ~CreationRefused =>
                  /\ Ancestors(Dir(m.configPath)) \subseteq DOMAIN files
                  /\ Exists(files, m.configPath)
                  /\ \A i \in 1..Len(heap[root]) : files[m.configPath].fields[i] = Found(Default(i))
                  /\ created(g)
            /\ ~m.persist /\ MissingFile =>
                  /\ ~Exists(files, m.configPath)
                  /\ ~Ran("EnsurePath") /\ ~Ran("writeToFile")
                  /\ ret[g].err \subseteq {"*model.ValidationError"}

FlagReturned(g) == ret[g].fileCreated

\* C13: with persistence and a resolved path, a file that exists and parses is
\* loaded and Get returns fileCreated = false; a file that does not exist is
\* created, with its parent directories, holding the defaults, and Get returns
\* fileCreated = true. Without persistence a missing file is not created and is
\* no error.
C13_PersistenceFlow == PersistenceCases(FlagReturned)
\* the messages written to streams.Out()
OutMessages == SelectSeq(out, LAMBDA e : e[1] = "Out")

\* the file step ended without error: the file was loaded or created
FileStepSucceeded ==
    Ran("loadFromFile") /\ ((ResolvedPath /\ FoundFile) \/ m.fileCreated)

\* C14: with streams configured, over all Get calls of a Provider, concurrent or
\* repeated, at most one "created new config" or "loaded from" message is
\* written to Out; exactly one when persistence is enabled and the file step
\* succeeded; and nothing is written once a Get has returned.
C14_MessageOnce ==
    m.streams =>
        /\ Len(OutMessages) <= 1
        /\ m.persist /\ FileStepSucceeded =>
              OutMessages = << <<"Out", IF m.fileCreated THEN "created new config"
                                        ELSE "loaded from">> >>
        /\ Returned # {} /\ ~(m.persist /\ FileStepSucceeded) => OutMessages = <<>>

\* C14 happens: the file was created and announced once; one caller returned and
\* called again, another returned after it
C14_Witness ==
    /\ m.streams /\ m.persist /\ m.fileCreated
    /\ OutMessages = << <<"Out", "created new config">> >>
    /\ \E g, h \in Returned : g # h /\ pc[g] = "after" /\ pc[h] = "returned"

-----------------------------------------------------------------------------
(* Claims about the name functions *)

Built == naming.fn = "buildEnvName" /\ naming.done

\* C15: buildEnvName(P, S) is the empty string when P and S are both empty, the
\* segments joined by "_" when only P is empty, P alone when only S is empty,
\* and P, "_" and the segments joined by "_" when both are non-empty.
C15_BuildEnvName ==
    Built =>
        LET P == naming.prefix
            S == naming.segments
        IN  /\ (P = <<>> /\ S = <<>>) => naming.result = <<>>
            /\ (P = <<>> /\ S # <<>>) => naming.result = Joined(S)
            /\ (P # <<>> /\ S = <<>>) => naming.result = P
            /\ (P # <<>> /\ S # <<>>) => naming.result = P \o <<"_">> \o Joined(S)

C15_Witness ==
    /\ Built
    /\ naming.prefix = <<>>
    /\ Len(naming.segments) = 2
    /\ naming.result = <<"A","_","B","_","C">>

Snaked == naming.fn = "toScreamingSnake" /\ naming.done

\* the positions of s that hold an uppercase letter directly after a lowercase one
Humps(s) == { j \in 2..Len(s) : IsLower(s[j - 1]) /\ IsUpper(s[j]) }

\* where the character at position i of s stands in the result
PlaceOf(s, i) == i + Cardinality({ j \in Humps(s) : j <= i })

\* the uppercase form of a character
Uppercased(c) ==
    IF \E i \in 1..26 : LowerChars[i] = c
    THEN UpperChars[CHOOSE i \in 1..26 : LowerChars[i] = c]
    ELSE c

-----------------------------------------------------------------------------
(* Claims about the file functions *)

Wrote == fcall.fn = "writeToFile" /\ fcall.done

\* what the path held when the call started, and what it holds now
HeldBefore(p) == IF Exists(fcall.fs, p) THEN <<fcall.fs[p]>> ELSE <<>>

HoldsNow(p) == IF Exists(files, p) THEN <<files[p]>> ELSE <<>>

Loaded == fcall.fn = "loadFromFile" /\ fcall.done

\* the extension of the path is .yaml, .yml or .json
Supported(path) == Ext(path) \in { <<".","y","a","m","l">>, <<".","y","m","l">>, <<".","j","s","o","n">> }

\* the path holds a file
IsFile(fs, path) == Exists(fs, path) /\ ~fs[path].dir

\* the target holds what the file sets and, for the rest, what it held
Populated ==
    \A i \in 1..Len(heap[root]) :
        heap[root][i] = IF files[fcall.path].fields[i].ok
                        THEN files[fcall.path].fields[i].val
                        ELSE fcall.heap[root][i]

\* C26: loadFromFile classifies its outcome by input: an empty path returns nil
\* and leaves the target unchanged without touching the file system; an
\* extension other than .yaml, .yml or .json (including none) returns an error
\* matching ErrUnsupportedConfigFileType before any read; a missing file returns
\* an error matching os.ErrNotExist; unparsable content returns an error
\* matching ErrParse; only otherwise does it return nil with the target
\* populated.
C26_LoadOutcomes ==
    Loaded =>
        LET path == fcall.path IN
        /\ files = fcall.fs
        /\ path = <<>> => fcall.err = nil /\ heap = fcall.heap
        /\ (path # <<>> /\ ~Supported(path)) =>
              /\ "ErrUnsupportedConfigFileType" \in fcall.err
              /\ {"os.ErrNotExist", "ErrParse"} \cap fcall.err = {}
              /\ heap = fcall.heap
        /\ (Supported(path) /\ ~Exists(files, path)) =>
              "os.ErrNotExist" \in fcall.err /\ heap = fcall.heap
        /\ (Supported(path) /\ IsFile(files, path) /\ ~files[path].parses) =>
              "ErrParse" \in fcall.err
        /\ (Supported(path) /\ IsFile(files, path) /\ files[path].parses) =>
              fcall.err = nil /\ Populated
        /\ (path # <<>> /\ fcall.err = nil) =>
              Supported(path) /\ IsFile(files, path) /\ files[path].parses

\* C26 happens: a file that sets the name and not the port was loaded into a
\* configuration that held both
C26_Witness ==
    /\ Loaded
    /\ fcall.err = nil
    /\ fcall.heap[root] = << <<"a","l","i","c","e">>, 7 >>
    /\ heap[root] = << <<"f","r","o","m","f","i","l","e">>, 7 >>

-----------------------------------------------------------------------------
(* Claims about ThreadSafeBuffersStreams *)

\* the writers whose Write is on the buffer buf
WritersOf(buf) == { w \in Writers : task[w].fn = "Write" /\ task[w].buf = buf }

\* the k-th run of ChunkLen bytes of s
Block(s, k) == SubSeq(s, (k - 1) * ChunkLen + 1, k * ChunkLen)

\* s is made of whole chunks written to buf, none of them twice
WholeChunks(s, buf) ==
    /\ Len(s) % ChunkLen = 0
    /\ \A k \in 1..(Len(s) \div ChunkLen) :
         \E w \in WritersOf(buf) : Block(s, k) = Chunk(w)
    /\ \A j, k \in 1..(Len(s) \div ChunkLen) : Block(s, j) = Block(s, k) => j = k

\* s holds the whole chunk of w
Holds(s, w) == \E k \in 1..(Len(s) \div ChunkLen) : Block(s, k) = Chunk(w)

\* the bytes a Write that holds the mutex of buf has copied so far
Copying(buf) ==
    IF ts[buf].mu \in Writers /\ task[ts[buf].mu].pc = "locked"
    THEN task[ts[buf].mu].n ELSE 0

\* no Write was made or returned after Reset was called
NoLaterWrite ==
    \A w \in Writers : task[w].pc = "idle" \/ (task[w].pc = "done" /\ task[w].early)

\* C27: ThreadSafeBuffersStreams loses no data under concurrency: whatever the
\* interleaving of the Writes on Out and on ErrOut, each buffer holds whole
\* chunks only (followed by the bytes copied so far by the Write that holds its
\* mutex), none twice and none of the other buffer; while Reset has not been
\* called each buffer holds the chunk of every Write on it that returned;
\* Strings returns whole chunks only; Reset leaves no part of a chunk; and after
\* Reset with no later Write both buffers, and the strings of a later Strings,
\* are empty.
C27_NoDataLost ==
    /\ \A buf \in {Out, ErrOut} :
         LET b == ts[buf].b
             n == Copying(buf)
         IN /\ n <= Len(b)
            /\ WholeChunks(SubSeq(b, 1, Len(b) - n), buf)
            /\ n > 0 => SubSeq(b, Len(b) - n + 1, Len(b)) = SubSeq(Chunk(ts[buf].mu), 1, n)
            /\ task[Resetter].pc = "idle" =>
                 \A w \in WritersOf(buf) : task[w].pc \in {"unlock", "done"} => Holds(b, w)
            /\ (task[Resetter].pc = "done" /\ NoLaterWrite) => b = <<>>
    /\ WholeChunks(task[Reader].out, Out)
    /\ WholeChunks(task[Reader].err, ErrOut)
    /\ (task[Reader].pc = "done" /\ task[Reader].after /\ NoLaterWrite) =>
          task[Reader].out = <<>> /\ task[Reader].err = <<>>

\* C27 happens: two Writes on Out have returned with Reset not yet called, and
\* Strings, called while a Write held the mutex with part of its chunk copied,
\* has read one whole chunk
C27_Witness ==
    /\ \A w \in Writers : task[w].pc = "done" /\ task[w].buf = Out
    /\ Len(ts[Out].b) = NumWriters * ChunkLen
    /\ task[Resetter].pc = "idle"
    /\ Len(task[Reader].out) = ChunkLen

-----------------------------------------------------------------------------
(* Claims about Provider.Get: failures *)

\* the initialisation failed at the model constructor, at SetDefaults or at the
\* resolution of the path: the step that failed
FailedStep ==
    IF m.initErr = {"modelInit"} THEN <<"modelInit">>
    ELSE IF m.initErr = {"SetDefaults"} THEN <<"SetDefaults">>
    ELSE IF m.initErr = {"UserConfigDir"} THEN <<"resolveConfigPath">>
    ELSE <<>>

\* the steps of the initialisation that come after the resolution of the path
LaterSteps == {"loadFromFile", "EnsurePath", "writeToFile", "loadFromEnv", "Validate"}

\* C28: if the model constructor or SetDefaults returns an error, or the path
\* resolution fails, the initialisation stops at that step: the failed step is
\* the last one run, no file is read, no directory or file is created, the
\* environment overrides are not applied, Validate is not called, and every Get
\* returns that error.
C28_StopsAtFailure ==
    FailedStep # <<>> =>
        /\ log[Len(log)] = FailedStep[1]
        /\ Range(log) \cap LaterSteps = {}
        /\ ~m.fileCreated
        /\ \A i \in 1..Len(out) : out[i][1] = "ErrOut"
        /\ calls = 0
        /\ heap[root] \in {defaultFn(m.defaultFn), SetDefaults(defaultFn(m.defaultFn))}
        /\ \A g \in Goroutines :
             /\ pc[g] \notin LaterSteps
             /\ pc[g] = "returned" =>
                  ret[g] = [NoResult EXCEPT !.err = m.initErr]

\* C28 happens: in persistent mode with a model, the user configuration
\* directory cannot be determined and Get has returned that error
C28_Witness ==
    /\ m.initErr = {"UserConfigDir"}
    /\ m.persist
    /\ m.model
    /\ \E g \in Goroutines : pc[g] = "returned"

\* the configuration as it stands before the file and environment steps: the
\* factory values, with the model defaults when there is a model
BeforeFile ==
    IF m.model THEN SetDefaults(defaultFn(m.defaultFn)) ELSE defaultFn(m.defaultFn)

\* C29: the config file that Get creates holds the configuration as it stands
\* before the environment step (factory values plus model defaults), also after
\* the environment step and Validate have run: a value that comes only from an
\* environment variable is never written to the file.
C29_FileBeforeEnv ==
    m.fileCreated =>
        /\ Exists(files, m.configPath)
        /\ files[m.configPath] = Marshal(BeforeFile)
        /\ Ran("loadFromEnv") => files[m.configPath] = Marshal(before[root])

\* C29 happens: Get created the file, the environment step then changed the
\* configuration, and Get returned
C29_Witness ==
    /\ m.fileCreated
    /\ Ran("loadFromEnv")
    /\ heap[root] # before[root]
    /\ files[m.configPath] # Marshal(heap[root])
    /\ \E g \in Goroutines : pc[g] = "returned"

\* the initialisation of this Provider wrote the config file: writeToFile ran
\* and the resolved path, which held nothing, holds a file
Written ==
    /\ Ran("writeToFile")
    /\ Exists(files, m.configPath)
    /\ ~files[m.configPath].dir

\* C30: Get returns fileCreated = true if and only if the initialisation of this
\* Provider wrote the config file, in every outcome, the ones in which a later
\* step (Validate) fails after the file was created included.
C30_FlagAgrees ==
    \A g \in Goroutines :
        pc[g] = "returned" => (ret[g].fileCreated <=> Written)

=============================================================================
